---------------------------- MODULE Spec2Model ----------------------------
(***************************************************************************)
(* Model of the bridge server's agent lifecycle and I/O fabric:            *)
(*   pty/process.rs     PtyProcess and its reader thread                   *)
(*   agent/session.rs   AgentSession and its output forwarder task         *)
(*   agent/manager.rs   AgentManager: registry, event bus, per-session     *)
(*                      forwarding task                                    *)
(*   server/websocket.rs  connection handlers driving the manager and      *)
(*                      forwarding the event bus to their client           *)
(*                                                                         *)
(* Every task (reader thread, session forwarder, manager forwarding task,  *)
(* connection handler) is a process with a program counter.  A step is a   *)
(* stretch of code between two points at which another task can observe or *)
(* change the shared data it touches (a lock acquisition, a channel send). *)
(***************************************************************************)
EXTENDS Integers, Sequences, FiniteSets, TLC

\* ------------------------------------------------------------------ bounds
\* spawn_agent calls made over the run (each creates one session id)
MaxSessions == 2
\* children started over the run (PtyProcess::spawn returning Ok)
MaxAgents == 1
\* chunks the children write to their PTYs over the run
MaxChunks == 2
\* successful resize_agent calls over the run
MaxResizes == 1
\* kill_agent calls over the run that find their agent
MaxKills == 2
\* write_input calls over the run that reach the PTY writer
MaxInputs == 1
\* connections whose client uses the whole of the manager's interface
MaxApiConns == 1
\* sessions constructed and held by their callers, with no manager
MaxHeld == 1
\* replies a handler sends in its main loop to the requests it answers itself
MaxReplies == 2
\* client connections accepted over the run
MaxConns == 2
\* chunks a session's output channel keeps for a receiver that is behind
\* (the capacity of broadcast::channel in AgentSession::new, scaled down)
OutputRetained == 1

Ids == 1..MaxSessions
Conns == 1..MaxConns
Held == 1..MaxHeld

\* -------------------------------------------------------- program constants
DEFAULT_TERMINAL_COLS == 80
DEFAULT_TERMINAL_ROWS == 24
\* the size a client asks for in resize_terminal (spec scenario 4)
ResizeCols == 120
ResizeRows == 40

DefaultDims == <<DEFAULT_TERMINAL_COLS, DEFAULT_TERMINAL_ROWS>>
ResizeDims == <<ResizeCols, ResizeRows>>

VARIABLES
    \* --- AgentManager
    registry,         \* keys of AgentManager.sessions
    bus,              \* every AgentEvent sent on event_tx, in send order
    nextId,           \* the next fresh session id (Uuid::new_v4)
    \* --- AgentSession, per id
    sState,           \* AgentSession.state ("none": not constructed yet)
    process,          \* AgentSession.process is Some
    dims,             \* AgentSession.cols / rows
    shutdownPending,  \* a () is queued on the forwarder's shutdown_rx
    fwdPc,            \* the task of start_output_forwarder
    \* --- PtyProcess, per id
    exited,           \* PtyProcess.exited
    exitInfo,         \* PtyProcess.exit_info ("None" or the reason)
    ptyOut,           \* mpsc channel reader thread -> PtyProcess.output_rx
    ptyShutdown,      \* a () is queued on the reader's shutdown_rx
    readerPc,         \* the reader thread
    nRead,            \* chunks the reader thread has read so far
    childEof,         \* the reader saw a zero-byte read
    \* --- the manager's forwarding task, per id
    outRx,            \* its receiver on the session's output broadcast
    exitRx,           \* its receiver on the session's exit broadcast
    mfPc,
    \* --- connection handlers
    connPc,           \* "closed", "idle", or the step of the request in hand
    connArg,          \* the agent id of the request in hand
    evPos,            \* index in bus of the next event agent_event_rx yields
    announced,        \* agent ids sent to the client in agent_spawned
    outputSeen,       \* agent ids sent to the client in agent_output
    \* --- history
    kills,            \* per id: "none", "issued" (session.kill called), "ok"
    nKills,           \* kill_agent calls so far that found their agent
    nResized,         \* successful resizes so far
    \* --- the child's side of the PTY, per id
    written,          \* inputs written to the PTY master (the child's stdin)
    \* --- the task that runs AgentManager::shutdown_all
    sa,               \* its place, the ids still to kill, the id in hand
    \* --- WebSocketServer and main
    token,            \* ServerConfig.token is Some
    srv,              \* the shutdown signal is sent; the place of main / run()
    shutRx,           \* per connection: a () is queued on its shutdown_rx
    sent,             \* per connection: the replies sent to the client
    \* --- ClientEnvelope::from_json
    frame,            \* the text frame in hand
    outcome,          \* what from_json made of it
    \* --- history of the manager's forwarding tasks
    lagged,           \* per id: its output receiver has returned Lagged
    \* --- PtyProcessWithCallbacks
    cb                \* the process mutex, the forwarding task, the caller

vars == <<registry, bus, nextId, sState, process, dims, shutdownPending, fwdPc,
          exited, exitInfo, ptyOut, ptyShutdown, readerPc, nRead, childEof,
          outRx, exitRx, mfPc, connPc, connArg, evPos, announced, outputSeen,
          kills, nKills, nResized, written, sa,
          token, srv, shutRx, sent, frame, outcome, lagged, cb>>

sessVars == <<sState, process, dims, shutdownPending, fwdPc>>
ptyVars == <<exited, exitInfo, ptyOut, ptyShutdown, readerPc, nRead, childEof>>
mfVars == <<outRx, exitRx, mfPc>>
mgrVars == <<registry, bus, nextId>>
connVars == <<connPc, connArg, evPos, announced, outputSeen>>
histVars == <<kills, nKills, nResized>>
wsVars == <<token, srv, shutRx, sent>>
decVars == <<frame, outcome>>
cbVars == <<lagged, cb>>
apiVars == <<written, sa, wsVars, decVars, cbVars>>

\* ------------------------------------------------------------ AgentEvent
Ev(t, id, k, reason, d) == [t |-> t, id |-> id, k |-> k, reason |-> reason, dims |-> d]
Spawned(id, d) == Ev("Spawned", id, 0, "", d)
Output(id, k) == Ev("Output", id, k, "", <<0, 0>>)
Exited(id, reason) == Ev("Exited", id, 0, reason, <<0, 0>>)
Resized(id, d) == Ev("Resized", id, 0, "", d)

\* event_tx.send(e)
Publish(e) == bus' = Append(bus, e)

\* positions of the events of one type carrying one id
Pos(t, id) == {i \in 1..Len(bus) : bus[i].t = t /\ bus[i].id = id}

\* no text frame is in hand, nothing is decoded
NoFrame == [wellFormed |-> FALSE]
NoOutcome == [by |-> "none", res |-> "none"]

\* ServerMessage, as far as the claims read it: the variant, the error code,
\* the agent id (0: none), the seq of a pong
Msg(t, code, id) == [t |-> t, code |-> code, id |-> id, seq |-> 0]
\* ServerMessage::welcome / welcome_auth_required
Welcome == Msg("welcome", "", 0)

\* no PtyProcessWithCallbacks is spawned yet
NoCallbacks ==
    [task |-> "none", holder |-> "none", queue |-> 0, produced |-> 0,
     closed |-> FALSE, exited |-> FALSE, shutdown |-> FALSE, running |-> FALSE,
     outCalls |-> 0, exitCalls |-> 0, op |-> "none", callPc |-> "none",
     nCalls |-> 0, result |-> "none"]

\* WebSocketServer::new / AgentManager::new: no session, nothing on the bus,
\* no shutdown signal.  conns: the connection handlers' places; tok: a token
\* is configured.
ConstructedWith(conns, tok) ==
    /\ registry = {}
    /\ bus = <<>>
    /\ nextId = 1
    /\ sState = [s \in Ids |-> "none"]
    /\ process = [s \in Ids |-> FALSE]
    /\ dims = [s \in Ids |-> DefaultDims]
    /\ shutdownPending = [s \in Ids |-> FALSE]
    /\ fwdPc = [s \in Ids |-> "none"]
    /\ exited = [s \in Ids |-> FALSE]
    /\ exitInfo = [s \in Ids |-> "None"]
    /\ ptyOut = [s \in Ids |-> <<>>]
    /\ ptyShutdown = [s \in Ids |-> FALSE]
    /\ readerPc = [s \in Ids |-> "none"]
    /\ nRead = [s \in Ids |-> 0]
    /\ childEof = [s \in Ids |-> FALSE]
    /\ outRx = [s \in Ids |-> <<>>]
    /\ exitRx = [s \in Ids |-> <<>>]
    /\ mfPc = [s \in Ids |-> "none"]
    /\ connPc = conns
    /\ connArg = [c \in Conns |-> 0]
    /\ evPos = [c \in Conns |-> 1]
    /\ announced = [c \in Conns |-> {}]
    /\ outputSeen = [c \in Conns |-> {}]
    /\ kills = [s \in Ids |-> "none"]
    /\ nKills = 0
    /\ nResized = 0
    /\ written = [s \in Ids |-> 0]
    /\ sa = [pc |-> "none", todo |-> {}, arg |-> 0]
    /\ token = tok
    /\ srv = [signal |-> FALSE, pc |-> "run"]
    /\ shutRx = [c \in Conns |-> FALSE]
    /\ sent = [c \in Conns |-> IF conns[c] = "closed" THEN <<>> ELSE <<Welcome>>]
    /\ frame = NoFrame
    /\ outcome = NoOutcome
    /\ lagged = [id \in Ids |-> FALSE]
    /\ cb = NoCallbacks

\* the server run without a token
Constructed(conns) == ConstructedWith(conns, FALSE)

\* The server with its clients connected: every handler has sent welcome,
\* subscribed to the (still empty) bus and waits in its select!.
Init == Constructed([c \in Conns |-> "idle"])

\* The server right after construction, no connection accepted yet.
InitListening == Constructed([c \in Conns |-> "closed"])

\* ------------------------------------------------------------------ locks
\* AgentManager.sessions (RwLock): kill_agent's second block holds a read guard
\* across session.kill(), send_input holds one across session.write_str();
\* resize_agent holds the write guard to its end.
RegReadHeld ==
    \/ \E c \in Conns : connPc[c] \in {"kill_pty", "input_write"} /\ connArg[c] \in registry
    \/ sa.pc = "kill_pty"
RegWriteHeld == \E c \in Conns : connPc[c] = "resize_publish"
CanRegRead == ~RegWriteHeld
CanRegWrite == ~RegWriteHeld /\ ~RegReadHeld

\* AgentSession.process (RwLock): the forwarder holds the write guard for the
\* whole of one poll; kill, resize and write_input take a read guard.
ProcWriteHeld(s) == fwdPc[s] = "drain"
\* write_input holds its read guard from the has_exited check to the write
ProcReadHeld(s) == \E c \in Conns : connPc[c] = "input_write" /\ connArg[c] = s

\* ------------------------------------------------------- channel endpoints
\* the forwarder's shutdown_rx exists while its task runs
FwdAlive(s) == fwdPc[s] \in {"wait", "drain"}
\* the reader's shutdown_rx exists while its thread runs
ReaderAlive(s) == readerPc[s] \in {"read", "info_Normal", "info_Unknown"}
\* the manager task's output_rx / exit_rx exist while the task runs
MfAlive(s) == mfPc[s] \in {"select", "remove"}


\* ============================================================ PtyProcess
\* Drop for PtyProcess (and the drop of its fields): shutdown_tx.send(()),
\* output_rx is dropped with whatever it still holds.
DropPty(s) ==
    /\ ptyShutdown' = [ptyShutdown EXCEPT ![s] = @ \/ ReaderAlive(s)]
    /\ ptyOut' = [ptyOut EXCEPT ![s] = <<>>]

\* chunks read by all reader threads so far
RECURSIVE SumTo(_, _)
SumTo(f, n) == IF n = 0 THEN 0 ELSE f[n] + SumTo(f, n - 1)
ChunksRead == SumTo(nRead, MaxSessions)

\* reader_loop, Ok(n): a chunk is read; blocking_send fails when output_rx is
\* gone (break); otherwise the chunk is queued and the loop comes back to its
\* shutdown_rx.try_recv().
ReaderChunk(s) ==
    /\ readerPc[s] = "read"
    /\ ChunksRead < MaxChunks
    /\ nRead' = [nRead EXCEPT ![s] = @ + 1]
    /\ IF ~process[s]
       THEN /\ readerPc' = [readerPc EXCEPT ![s] = "done"]
            /\ UNCHANGED ptyOut
       ELSE /\ ptyOut' = [ptyOut EXCEPT ![s] = Append(@, nRead[s] + 1)]
            /\ readerPc' = [readerPc EXCEPT ![s] =
                               IF ptyShutdown[s] THEN "done" ELSE "read"]
    /\ UNCHANGED <<exited, exitInfo, ptyShutdown, childEof>>
    /\ UNCHANGED <<mgrVars, sessVars, mfVars, connVars, histVars>>
    /\ UNCHANGED apiVars

\* reader_loop, Err(WouldBlock): sleep, continue; the next try_recv() finds the
\* shutdown signal and the loop breaks without touching exited / exit_info.
ReaderShutdown(s) ==
    /\ readerPc[s] = "read"
    /\ ptyShutdown[s]
    /\ readerPc' = [readerPc EXCEPT ![s] = "done"]
    /\ UNCHANGED <<exited, exitInfo, ptyOut, ptyShutdown, nRead, childEof>>
    /\ UNCHANGED <<mgrVars, sessVars, mfVars, connVars, histVars>>
    /\ UNCHANGED apiVars

\* reader_loop, Ok(0) (reason Normal) or Err(other) (reason Unknown):
\* Handle::try_current() decides whether exited / exit_info are written at all
\* (rt); the first of the two writes is done here.
ReaderEnd(s, reason, rt) ==
    /\ readerPc[s] = "read"
    /\ childEof' = [childEof EXCEPT ![s] = (reason = "Normal")]
    /\ IF rt
       THEN /\ exited' = [exited EXCEPT ![s] = TRUE]
            /\ readerPc' = [readerPc EXCEPT ![s] =
                               IF reason = "Normal" THEN "info_Normal" ELSE "info_Unknown"]
       ELSE /\ readerPc' = [readerPc EXCEPT ![s] = "done"]
            /\ UNCHANGED exited
    /\ UNCHANGED <<exitInfo, ptyOut, ptyShutdown, nRead>>
    /\ UNCHANGED <<mgrVars, sessVars, mfVars, connVars, histVars>>
    /\ UNCHANGED apiVars

\* reader_loop: *exit_info.write().await = Some(ProcessExit {..}); break
ReaderExitInfo(s) ==
    /\ readerPc[s] \in {"info_Normal", "info_Unknown"}
    /\ exitInfo' = [exitInfo EXCEPT ![s] =
                       IF readerPc[s] = "info_Normal" THEN "Normal" ELSE "Unknown"]
    /\ readerPc' = [readerPc EXCEPT ![s] = "done"]
    /\ UNCHANGED <<exited, ptyOut, ptyShutdown, nRead, childEof>>
    /\ UNCHANGED <<mgrVars, sessVars, mfVars, connVars, histVars>>
    /\ UNCHANGED apiVars

\* ========================================================== AgentSession
\* SendOutput delivering to the front of the receiver's queue
SendOutputFront(s, k) ==
    outRx' = [outRx EXCEPT ![s] = IF MfAlive(s) THEN <<k>> \o @ ELSE @]

\* output_tx.send / exit_tx.send: a broadcast send reaches the receivers that
\* exist at that moment, and is lost when there is none.
SendOutput(s, k) ==
    outRx' = [outRx EXCEPT ![s] = IF MfAlive(s) THEN Append(@, k) ELSE @]
SendExit(s, reason) ==
    exitRx' = [exitRx EXCEPT ![s] = IF MfAlive(s) THEN Append(@, reason) ELSE @]

\* start_output_forwarder, select!: shutdown_rx.recv() completes
FwdShutdown(s) ==
    /\ fwdPc[s] = "wait"
    /\ shutdownPending[s]
    /\ fwdPc' = [fwdPc EXCEPT ![s] = "done"]
    /\ UNCHANGED <<sState, process, dims, shutdownPending>>
    /\ UNCHANGED <<mgrVars, ptyVars, mfVars, connVars, histVars>>
    /\ UNCHANGED apiVars

\* start_output_forwarder, select!: the 10 ms sleep completes and
\* process.write().await is granted
FwdWake(s) ==
    /\ fwdPc[s] = "wait"
    /\ ~ProcReadHeld(s)
    /\ fwdPc' = [fwdPc EXCEPT ![s] = IF process[s] THEN "drain" ELSE "done"]
    /\ UNCHANGED <<sState, process, dims, shutdownPending>>
    /\ UNCHANGED <<mgrVars, ptyVars, mfVars, connVars, histVars>>
    /\ UNCHANGED apiVars

\* while let Some(output) = proc.try_recv() { output_tx.send(..) }: one chunk
FwdDrain(s) ==
    /\ fwdPc[s] = "drain"
    /\ ptyOut[s] # <<>>
    /\ SendOutput(s, Head(ptyOut[s]))
    /\ ptyOut' = [ptyOut EXCEPT ![s] = Tail(@)]
    /\ UNCHANGED <<sState, process, dims, shutdownPending, fwdPc>>
    /\ UNCHANGED <<exited, exitInfo, ptyShutdown, readerPc, nRead, childEof>>
    /\ UNCHANGED <<exitRx, mfPc>>
    /\ UNCHANGED <<mgrVars, connVars, histVars>>
    /\ UNCHANGED apiVars

\* the reason the forwarder reports: exit_info, or Unknown when it is None
ExitReasonOf(info) == IF info = "None" THEN "Unknown" ELSE info

\* try_recv() yields None; if proc.has_exited().await { state = Stopped;
\* exit_tx.send(..); *proc_guard = None; break }; otherwise the guard is
\* released and the loop polls its select! again, where a queued shutdown
\* signal is ready at once.
FwdCheck(s) ==
    /\ fwdPc[s] = "drain"
    /\ ptyOut[s] = <<>>
    /\ IF exited[s]
       THEN /\ sState' = [sState EXCEPT ![s] = "Stopped"]
            /\ SendExit(s, ExitReasonOf(exitInfo[s]))
            /\ process' = [process EXCEPT ![s] = FALSE]
            /\ DropPty(s)
            /\ fwdPc' = [fwdPc EXCEPT ![s] = "done"]
       ELSE /\ fwdPc' = [fwdPc EXCEPT ![s] =
                            IF shutdownPending[s] THEN "done" ELSE "wait"]
            /\ UNCHANGED <<sState, process, exitRx, ptyOut, ptyShutdown>>
    /\ UNCHANGED <<dims, shutdownPending>>
    /\ UNCHANGED <<exited, exitInfo, readerPc, nRead, childEof>>
    /\ UNCHANGED <<outRx, mfPc>>
    /\ UNCHANGED <<mgrVars, connVars, histVars>>
    /\ UNCHANGED apiVars

\* ===================================== AgentManager: setup_output_forwarding
\* output_rx.recv() => Ok(output): event_tx.send(Output)
MfOutput(s) ==
    /\ mfPc[s] = "select"
    /\ outRx[s] # <<>>
    /\ Publish(Output(s, Head(outRx[s])))
    /\ outRx' = [outRx EXCEPT ![s] = Tail(@)]
    /\ UNCHANGED <<registry, nextId, exitRx, mfPc>>
    /\ UNCHANGED <<sessVars, ptyVars, connVars, histVars>>
    /\ UNCHANGED apiVars

\* MfOutput while the receiver is within the channel's capacity
MfOutputInCapacity(s) ==
    /\ Len(outRx[s]) <= OutputRetained
    /\ MfOutput(s)

\* MfLagged taking Lagged for the end of the channel and leaving the loop
MfLaggedBreaks(s) ==
    /\ mfPc[s] = "select"
    /\ Len(outRx[s]) > OutputRetained
    /\ outRx' = [outRx EXCEPT ![s] = SubSeq(@, Len(@) - OutputRetained + 1, Len(@))]
    /\ lagged' = [lagged EXCEPT ![s] = TRUE]
    /\ mfPc' = [mfPc EXCEPT ![s] = "done"]
    /\ UNCHANGED <<mgrVars, exitRx, sessVars, ptyVars, connVars, histVars>>
    /\ UNCHANGED <<written, sa, wsVars, decVars, cb>>

\* output_rx.recv() => Err(Lagged(n)): the receiver has fallen more than the
\* channel's capacity behind; its cursor moves to the oldest chunk the channel
\* still holds, warn!, and the loop goes on
MfLagged(s) ==
    /\ mfPc[s] = "select"
    /\ Len(outRx[s]) > OutputRetained
    /\ outRx' = [outRx EXCEPT ![s] = SubSeq(@, Len(@) - OutputRetained + 1, Len(@))]
    /\ lagged' = [lagged EXCEPT ![s] = TRUE]
    /\ UNCHANGED <<mgrVars, exitRx, mfPc, sessVars, ptyVars, connVars, histVars>>
    /\ UNCHANGED <<written, sa, wsVars, decVars, cb>>

\* MfExit going back to its select! with the exit still to be received
MfExitStaysInLoop(s) ==
    /\ mfPc[s] = "select"
    /\ exitRx[s] # <<>>
    /\ Publish(Exited(s, Head(exitRx[s])))
    /\ UNCHANGED <<registry, nextId, outRx, exitRx, mfPc>>
    /\ UNCHANGED <<sessVars, ptyVars, connVars, histVars>>
    /\ UNCHANGED apiVars

\* exit_rx.recv() => Ok(exit): event_tx.send(Exited)
MfExit(s) ==
    /\ mfPc[s] = "select"
    /\ exitRx[s] # <<>>
    /\ Publish(Exited(s, Head(exitRx[s])))
    /\ exitRx' = [exitRx EXCEPT ![s] = Tail(@)]
    /\ mfPc' = [mfPc EXCEPT ![s] = "remove"]
    /\ UNCHANGED <<registry, nextId, outRx>>
    /\ UNCHANGED <<sessVars, ptyVars, connVars, histVars>>
    /\ UNCHANGED apiVars

\* sessions.write().await; sessions_guard.remove(&agent_id); break.
\* A removed AgentSession is dropped (Drop: shutdown_tx.send(())).
MfRemove(s) ==
    /\ mfPc[s] = "remove"
    /\ CanRegWrite
    /\ registry' = registry \ {s}
    /\ mfPc' = [mfPc EXCEPT ![s] = "done"]
    /\ outRx' = [outRx EXCEPT ![s] = <<>>]
    /\ shutdownPending' = [shutdownPending EXCEPT ![s] =
                              @ \/ (s \in registry /\ FwdAlive(s))]
    /\ UNCHANGED <<bus, nextId, exitRx>>
    /\ UNCHANGED <<sState, process, dims, fwdPc>>
    /\ UNCHANGED <<ptyVars, connVars, histVars>>
    /\ UNCHANGED apiVars

\* ==================================================== connection handlers
\* handle_connection: the WebSocket is accepted, welcome is sent and the
\* handler subscribes to the manager's event bus (it sees later events only).
ConnAccept(c) ==
    /\ connPc[c] = "closed"
    /\ connPc' = [connPc EXCEPT ![c] = "idle"]
    /\ evPos' = [evPos EXCEPT ![c] = Len(bus) + 1]
    /\ sent' = [sent EXCEPT ![c] = Append(@, Welcome)]
    /\ UNCHANGED <<connArg, announced, outputSeen>>
    /\ UNCHANGED <<mgrVars, sessVars, ptyVars, mfVars, histVars>>
    /\ UNCHANGED <<token, srv, shutRx, decVars, cbVars, written, sa>>

\* the request in hand is answered and the handler is back in its select!
Return(c) ==
    /\ connPc' = [connPc EXCEPT ![c] = "idle"]
    /\ connArg' = [connArg EXCEPT ![c] = 0]

\* handle_connection, agent_event_rx.recv(): Output / Exited / Resized are
\* sent to the client, Spawned is dropped.
ConnEvent(c) ==
    /\ connPc[c] = "idle"
    /\ evPos[c] <= Len(bus)
    /\ evPos' = [evPos EXCEPT ![c] = @ + 1]
    /\ outputSeen' = [outputSeen EXCEPT ![c] =
                         IF bus[evPos[c]].t = "Output"
                         THEN @ \cup {bus[evPos[c]].id} ELSE @]
    /\ UNCHANGED <<connPc, connArg, announced>>
    /\ UNCHANGED <<mgrVars, sessVars, ptyVars, mfVars, histVars>>
    /\ UNCHANGED apiVars

\* --------------------------------------------- AgentManager::spawn_agent
\* children started so far
AgentsStarted == Cardinality({s \in Ids : readerPc[s] # "none"})

\* spawn_agent: AgentSession::with_config (a fresh id, state Stopped, no
\* process), then AgentSession::spawn up to 'state = Starting': the state
\* check, then the path check (pathOk: the path exists and is a directory); an
\* Err makes spawn_agent return at 'session.spawn().await?'.
SpawnAgentNew(c, pathOk) ==
    /\ connPc[c] = "idle"
    /\ nextId <= MaxSessions
    /\ nextId' = nextId + 1
    /\ IF pathOk
       THEN /\ sState' = [sState EXCEPT ![nextId] = "Starting"]
            /\ connPc' = [connPc EXCEPT ![c] = "spawn_pty"]
            /\ connArg' = [connArg EXCEPT ![c] = nextId]
       ELSE /\ sState' = [sState EXCEPT ![nextId] = "Stopped"]
            /\ UNCHANGED <<connPc, connArg>>
    /\ UNCHANGED <<registry, bus, process, dims, shutdownPending, fwdPc>>
    /\ UNCHANGED <<evPos, announced, outputSeen>>
    /\ UNCHANGED <<ptyVars, mfVars, histVars>>
    /\ UNCHANGED apiVars

\* SessionSpawnPty with the session put into the registry before it is spawned:
\* a spawn that fails leaves its entry behind.
SessionSpawnPtyRegistersFirst(c, ptyOk) ==
    /\ connPc[c] = "spawn_pty"
    /\ ptyOk => AgentsStarted < MaxAgents
    /\ IF ptyOk
       THEN /\ readerPc' = [readerPc EXCEPT ![connArg[c]] = "read"]
            /\ process' = [process EXCEPT ![connArg[c]] = TRUE]
            /\ sState' = [sState EXCEPT ![connArg[c]] = "Running"]
            /\ fwdPc' = [fwdPc EXCEPT ![connArg[c]] = "wait"]
            /\ connPc' = [connPc EXCEPT ![c] = "spawn_setup"]
            /\ UNCHANGED connArg
       ELSE /\ Return(c)
            /\ UNCHANGED <<readerPc, process, sState, fwdPc>>
    /\ registry' = registry \cup {connArg[c]}
    /\ UNCHANGED <<bus, nextId>>
    /\ UNCHANGED <<dims, shutdownPending>>
    /\ UNCHANGED <<exited, exitInfo, ptyOut, ptyShutdown, nRead, childEof>>
    /\ UNCHANGED <<evPos, announced, outputSeen>>
    /\ UNCHANGED <<mfVars, histVars>>
    /\ UNCHANGED apiVars

\* AgentSession::spawn, from PtyProcess::spawn on (ptyOk: the PTY opens and
\* the child starts): the reader thread runs, the process is stored, the state
\* is Running and the forwarder task is started.  On Err the function returns
\* through '?' with the state left as it is.
SessionSpawnPty(c, ptyOk) ==
    /\ connPc[c] = "spawn_pty"
    /\ ptyOk => AgentsStarted < MaxAgents
    /\ IF ptyOk
       THEN /\ readerPc' = [readerPc EXCEPT ![connArg[c]] = "read"]
            /\ process' = [process EXCEPT ![connArg[c]] = TRUE]
            /\ sState' = [sState EXCEPT ![connArg[c]] = "Running"]
            /\ fwdPc' = [fwdPc EXCEPT ![connArg[c]] = "wait"]
            /\ connPc' = [connPc EXCEPT ![c] = "spawn_setup"]
            /\ UNCHANGED connArg
       ELSE /\ Return(c)
            /\ UNCHANGED <<readerPc, process, sState, fwdPc>>
    /\ UNCHANGED <<dims, shutdownPending>>
    /\ UNCHANGED <<exited, exitInfo, ptyOut, ptyShutdown, nRead, childEof>>
    /\ UNCHANGED <<evPos, announced, outputSeen>>
    /\ UNCHANGED <<mgrVars, mfVars, histVars>>
    /\ UNCHANGED apiVars

\* setup_output_forwarding: subscribe_output, subscribe_exit, tokio::spawn
SetupOutputForwarding(c) ==
    /\ connPc[c] = "spawn_setup"
    /\ mfPc' = [mfPc EXCEPT ![connArg[c]] = "select"]
    /\ connPc' = [connPc EXCEPT ![c] = "spawn_insert"]
    /\ UNCHANGED <<outRx, exitRx>>
    /\ UNCHANGED <<connArg, evPos, announced, outputSeen>>
    /\ UNCHANGED <<mgrVars, sessVars, ptyVars, histVars>>
    /\ UNCHANGED apiVars

\* SpawnInsert with the insert left out: Spawned is published for an id the
\* registry does not hold.
SpawnInsertSkipped(c) ==
    /\ connPc[c] = "spawn_insert"
    /\ CanRegWrite
    /\ connPc' = [connPc EXCEPT ![c] = "spawn_publish"]
    /\ UNCHANGED <<registry, bus, nextId>>
    /\ UNCHANGED <<connArg, evPos, announced, outputSeen>>
    /\ UNCHANGED <<sessVars, ptyVars, mfVars, histVars>>
    /\ UNCHANGED apiVars

\* spawn_agent: sessions.write().await; sessions.insert(agent_id, session)
SpawnInsert(c) ==
    /\ connPc[c] = "spawn_insert"
    /\ CanRegWrite
    /\ registry' = registry \cup {connArg[c]}
    /\ connPc' = [connPc EXCEPT ![c] = "spawn_publish"]
    /\ UNCHANGED <<bus, nextId>>
    /\ UNCHANGED <<connArg, evPos, announced, outputSeen>>
    /\ UNCHANGED <<sessVars, ptyVars, mfVars, histVars>>
    /\ UNCHANGED apiVars

\* spawn_agent: event_tx.send(Spawned); Ok(agent_id); handle_message answers
\* agent_spawned, which the handler sends before it polls its select! again.
SpawnPublish(c) ==
    /\ connPc[c] = "spawn_publish"
    /\ Publish(Spawned(connArg[c], dims[connArg[c]]))
    /\ announced' = [announced EXCEPT ![c] = @ \cup {connArg[c]}]
    /\ Return(c)
    /\ UNCHANGED <<registry, nextId>>
    /\ UNCHANGED <<evPos, outputSeen>>
    /\ UNCHANGED <<sessVars, ptyVars, mfVars, histVars>>
    /\ UNCHANGED apiVars

\* ---------------------------------------------- AgentManager::kill_agent
\* first block: sessions.read().await; contains_key; AgentNotFound if absent
KillCheck(c, id) ==
    /\ connPc[c] = "idle"
    /\ CanRegRead
    /\ id \in registry
    /\ nKills < MaxKills
    /\ nKills' = nKills + 1
    /\ connPc' = [connPc EXCEPT ![c] = "kill_lookup"]
    /\ connArg' = [connArg EXCEPT ![c] = id]
    /\ UNCHANGED <<evPos, announced, outputSeen>>
    /\ UNCHANGED <<mgrVars, sessVars, ptyVars, mfVars, kills, nResized>>
    /\ UNCHANGED apiVars

\* KillLookup setting every constructed session to Stopping
KillLookupStopsAll(c) ==
    /\ connPc[c] = "kill_lookup"
    /\ CanRegRead
    /\ IF connArg[c] \in registry
       THEN /\ sState' = [s \in Ids |-> IF sState[s] = "none" THEN "none" ELSE "Stopping"]
            /\ shutdownPending' = [shutdownPending EXCEPT ![connArg[c]] =
                                      @ \/ FwdAlive(connArg[c])]
            /\ kills' = [kills EXCEPT ![connArg[c]] = IF @ = "ok" THEN @ ELSE "issued"]
            /\ connPc' = [connPc EXCEPT ![c] = "kill_pty"]
            /\ UNCHANGED connArg
       ELSE /\ Return(c)
            /\ UNCHANGED <<sState, shutdownPending, kills>>
    /\ UNCHANGED <<process, dims, fwdPc, nKills, nResized>>
    /\ UNCHANGED <<evPos, announced, outputSeen>>
    /\ UNCHANGED <<mgrVars, ptyVars, mfVars>>
    /\ UNCHANGED apiVars

\* second block: sessions.read().await; sessions.get; AgentSession::kill up to
\* its process.read().await: state = Stopping, shutdown_tx.send(()).
\* When the id is gone by now the block is skipped and kill_agent returns Ok.
KillLookup(c) ==
    /\ connPc[c] = "kill_lookup"
    /\ CanRegRead
    /\ IF connArg[c] \in registry
       THEN /\ sState' = [sState EXCEPT ![connArg[c]] = "Stopping"]
            /\ shutdownPending' = [shutdownPending EXCEPT ![connArg[c]] =
                                      @ \/ FwdAlive(connArg[c])]
            /\ kills' = [kills EXCEPT ![connArg[c]] = IF @ = "ok" THEN @ ELSE "issued"]
            /\ connPc' = [connPc EXCEPT ![c] = "kill_pty"]
            /\ UNCHANGED connArg
       ELSE /\ Return(c)
            /\ UNCHANGED <<sState, shutdownPending, kills>>
    /\ UNCHANGED <<process, dims, fwdPc, nKills, nResized>>
    /\ UNCHANGED <<evPos, announced, outputSeen>>
    /\ UNCHANGED <<mgrVars, ptyVars, mfVars>>
    /\ UNCHANGED apiVars

\* KillPty with kill_agent removing the session from the registry itself
KillPtyRemoves(c) ==
    /\ connPc[c] = "kill_pty"
    /\ ~ProcWriteHeld(connArg[c])
    /\ IF process[connArg[c]]
       THEN /\ ptyShutdown' = [ptyShutdown EXCEPT ![connArg[c]] =
                                  @ \/ ReaderAlive(connArg[c])]
            /\ exited' = [exited EXCEPT ![connArg[c]] = TRUE]
            /\ exitInfo' = [exitInfo EXCEPT ![connArg[c]] = "Killed"]
       ELSE UNCHANGED <<ptyShutdown, exited, exitInfo>>
    /\ kills' = [kills EXCEPT ![connArg[c]] = "ok"]
    /\ registry' = registry \ {connArg[c]}
    /\ Return(c)
    /\ UNCHANGED <<bus, nextId>>
    /\ UNCHANGED <<ptyOut, readerPc, nRead, childEof, nKills, nResized>>
    /\ UNCHANGED <<evPos, announced, outputSeen>>
    /\ UNCHANGED <<sessVars, mfVars>>
    /\ UNCHANGED apiVars

\* KillPty with PtyProcess::kill leaving a process that is already marked
\* exited as it is
KillPtyUnlessExited(c) ==
    /\ connPc[c] = "kill_pty"
    /\ ~ProcWriteHeld(connArg[c])
    /\ IF process[connArg[c]] /\ ~exited[connArg[c]]
       THEN /\ ptyShutdown' = [ptyShutdown EXCEPT ![connArg[c]] =
                                  @ \/ ReaderAlive(connArg[c])]
            /\ exited' = [exited EXCEPT ![connArg[c]] = TRUE]
            /\ exitInfo' = [exitInfo EXCEPT ![connArg[c]] = "Killed"]
       ELSE UNCHANGED <<ptyShutdown, exited, exitInfo>>
    /\ kills' = [kills EXCEPT ![connArg[c]] = "ok"]
    /\ Return(c)
    /\ UNCHANGED <<ptyOut, readerPc, nRead, childEof, nKills, nResized>>
    /\ UNCHANGED <<evPos, announced, outputSeen>>
    /\ UNCHANGED <<mgrVars, sessVars, mfVars>>
    /\ UNCHANGED apiVars

\* KillPty asking for the registry write lock while it holds its read guard
KillPtyTakesWriteLock(c) ==
    /\ connPc[c] = "kill_pty"
    /\ CanRegWrite
    /\ ~ProcWriteHeld(connArg[c])
    /\ IF process[connArg[c]]
       THEN /\ ptyShutdown' = [ptyShutdown EXCEPT ![connArg[c]] =
                                  @ \/ ReaderAlive(connArg[c])]
            /\ exited' = [exited EXCEPT ![connArg[c]] = TRUE]
            /\ exitInfo' = [exitInfo EXCEPT ![connArg[c]] = "Killed"]
       ELSE UNCHANGED <<ptyShutdown, exited, exitInfo>>
    /\ kills' = [kills EXCEPT ![connArg[c]] = "ok"]
    /\ Return(c)
    /\ UNCHANGED <<ptyOut, readerPc, nRead, childEof, nKills, nResized>>
    /\ UNCHANGED <<evPos, announced, outputSeen>>
    /\ UNCHANGED <<mgrVars, sessVars, mfVars>>
    /\ UNCHANGED apiVars

\* AgentSession::kill: process.read().await is granted; PtyProcess::kill:
\* shutdown_tx.send(()), exited = true, exit_info = Some(Killed).  With no
\* process stored, kill returns Ok at once.  The guards are released and
\* kill_agent returns Ok.
KillPty(c) ==
    /\ connPc[c] = "kill_pty"
    /\ ~ProcWriteHeld(connArg[c])
    /\ IF process[connArg[c]]
       THEN /\ ptyShutdown' = [ptyShutdown EXCEPT ![connArg[c]] =
                                  @ \/ ReaderAlive(connArg[c])]
            /\ exited' = [exited EXCEPT ![connArg[c]] = TRUE]
            /\ exitInfo' = [exitInfo EXCEPT ![connArg[c]] = "Killed"]
       ELSE UNCHANGED <<ptyShutdown, exited, exitInfo>>
    /\ kills' = [kills EXCEPT ![connArg[c]] = "ok"]
    /\ Return(c)
    /\ UNCHANGED <<ptyOut, readerPc, nRead, childEof, nKills, nResized>>
    /\ UNCHANGED <<evPos, announced, outputSeen>>
    /\ UNCHANGED <<mgrVars, sessVars, mfVars>>
    /\ UNCHANGED apiVars

\* -------------------------------------------- AgentManager::resize_agent
\* sessions.write().await; get_mut (AgentNotFound if absent);
\* AgentSession::resize: process.read().await is granted; NotRunning with no
\* process; PtyProcess::resize fails with ProcessExited once exited is set;
\* otherwise the PTY is resized and cols / rows are stored.
ResizeAgent(c, id) ==
    /\ connPc[c] = "idle"
    /\ nResized < MaxResizes
    /\ CanRegWrite
    /\ id \in registry
    /\ ~ProcWriteHeld(id)
    /\ IF process[id] /\ ~exited[id]
       THEN /\ dims' = [dims EXCEPT ![id] = ResizeDims]
            /\ nResized' = nResized + 1
            /\ connPc' = [connPc EXCEPT ![c] = "resize_publish"]
            /\ connArg' = [connArg EXCEPT ![c] = id]
       ELSE UNCHANGED <<dims, nResized, connPc, connArg>>
    /\ UNCHANGED <<sState, process, shutdownPending, fwdPc, kills, nKills>>
    /\ UNCHANGED <<evPos, announced, outputSeen>>
    /\ UNCHANGED <<mgrVars, ptyVars, mfVars>>
    /\ UNCHANGED apiVars

\* resize_agent: event_tx.send(Resized); Ok(()); the write guard is released
ResizePublish(c) ==
    /\ connPc[c] = "resize_publish"
    /\ Publish(Resized(connArg[c], ResizeDims))
    /\ Return(c)
    /\ UNCHANGED <<registry, nextId>>
    /\ UNCHANGED <<evPos, announced, outputSeen>>
    /\ UNCHANGED <<sessVars, ptyVars, mfVars, histVars>>
    /\ UNCHANGED apiVars

\* ------------------------------------------------------ results of a call
\* A call that ends with an Err, or with an Ok that carries an answer, is at
\* the place named after its result until the caller has taken the result.
ErrPcs == {"err_AgentNotFound", "err_AlreadyRunning", "err_InvalidPath",
           "err_SpawnFailed", "err_NotRunning", "err_ProcessExited",
           "err_WriteFailed", "err_ResizeFailed"}
ReplyPcs == ErrPcs \cup {"reply_Ok"}

\* the call of c on id ends with res
Result(c, id, res) ==
    /\ connPc' = [connPc EXCEPT ![c] = res]
    /\ connArg' = [connArg EXCEPT ![c] = id]

\* the caller takes the result (handle_message builds the response, the
\* handler sends it) and is ready for its next call
ConnReply(c) ==
    /\ connPc[c] \in ReplyPcs
    /\ Return(c)
    /\ UNCHANGED <<evPos, announced, outputSeen>>
    /\ UNCHANGED <<mgrVars, sessVars, ptyVars, mfVars, histVars, apiVars>>

\* ============================== AgentSession, called by the holder of a session
\* inputs written to all children so far
InputsWritten == SumTo(written, MaxSessions)

\* WriteInputCheck without the look at the process field
WriteInputCheckNoProcess(c, id) ==
    Result(c, id, IF exited[id] THEN "err_ProcessExited" ELSE "input_write")

\* AgentSession::write_input up to PtyProcess::write's has_exited check:
\* process.read().await is granted; NotRunning with no process; ProcessExited
\* once exited is set; otherwise the call goes on to the writer, holding its
\* read guard.
WriteInputCheck(c, id) ==
    Result(c, id, IF ~process[id] THEN "err_NotRunning"
                  ELSE IF exited[id] THEN "err_ProcessExited"
                  ELSE "input_write")

\* AgentSession::write_input on a session the caller holds
SessionWriteInput(c, id) ==
    /\ connPc[c] = "idle"
    /\ sState[id] # "none"
    /\ ~ProcWriteHeld(id)
    /\ (process[id] /\ ~exited[id]) => InputsWritten < MaxInputs
    /\ WriteInputCheck(c, id)
    /\ UNCHANGED <<evPos, announced, outputSeen>>
    /\ UNCHANGED <<mgrVars, sessVars, ptyVars, mfVars, histVars, apiVars>>

\* PtyProcess::write after its check: writer.lock().await; write_all; flush
\* (ok: both succeed); the guards are released
InputWrite(c, ok) ==
    /\ connPc[c] = "input_write"
    /\ written' = [written EXCEPT ![connArg[c]] = IF ok THEN @ + 1 ELSE @]
    /\ Result(c, connArg[c], IF ok THEN "reply_Ok" ELSE "err_WriteFailed")
    /\ UNCHANGED <<evPos, announced, outputSeen, sa, wsVars, decVars, cbVars>>
    /\ UNCHANGED <<mgrVars, sessVars, ptyVars, mfVars, histVars>>

\* AgentSession::resize on a session the caller holds.  It takes &mut self: no
\* other call on the session is in progress.  process.read().await is granted;
\* NotRunning with no process; PtyProcess::resize fails with ProcessExited once
\* exited is set; otherwise the PTY is resized and cols / rows are stored.
SessionResize(c, id) ==
    /\ connPc[c] = "idle"
    /\ sState[id] # "none"
    /\ \A c2 \in Conns : connArg[c2] # id
    /\ ~ProcWriteHeld(id)
    /\ (process[id] /\ ~exited[id]) => nResized < MaxResizes
    /\ IF process[id] /\ ~exited[id]
       THEN /\ dims' = [dims EXCEPT ![id] = ResizeDims]
            /\ nResized' = nResized + 1
            /\ Result(c, id, "reply_Ok")
       ELSE /\ Result(c, id, IF ~process[id] THEN "err_NotRunning"
                             ELSE "err_ProcessExited")
            /\ UNCHANGED <<dims, nResized>>
    /\ UNCHANGED <<sState, process, shutdownPending, fwdPc, kills, nKills>>
    /\ UNCHANGED <<evPos, announced, outputSeen>>
    /\ UNCHANGED <<mgrVars, ptyVars, mfVars, apiVars>>

\* SessionSpawn rejecting a Running session only
SessionSpawnRunningOnly(c, id, pathOk) ==
    /\ connPc[c] = "idle"
    /\ sState[id] # "none"
    /\ IF sState[id] = "Running"
       THEN /\ Result(c, id, "err_AlreadyRunning")
            /\ UNCHANGED sState
       ELSE IF ~pathOk
       THEN /\ Result(c, id, "err_InvalidPath")
            /\ UNCHANGED sState
       ELSE /\ sState' = [sState EXCEPT ![id] = "Starting"]
            /\ Result(c, id, "sess_spawn_pty")
    /\ UNCHANGED <<process, dims, shutdownPending, fwdPc>>
    /\ UNCHANGED <<evPos, announced, outputSeen>>
    /\ UNCHANGED <<mgrVars, ptyVars, mfVars, histVars, apiVars>>

\* AgentSession::spawn on an existing session, up to 'state = Starting': the
\* state check (AlreadyRunning for Running and Starting), the path check
\* (pathOk: the path exists and is a directory).
SessionSpawn(c, id, pathOk) ==
    /\ connPc[c] = "idle"
    /\ sState[id] # "none"
    /\ IF sState[id] \in {"Running", "Starting"}
       THEN /\ Result(c, id, "err_AlreadyRunning")
            /\ UNCHANGED sState
       ELSE IF ~pathOk
       THEN /\ Result(c, id, "err_InvalidPath")
            /\ UNCHANGED sState
       ELSE /\ sState' = [sState EXCEPT ![id] = "Starting"]
            /\ Result(c, id, "sess_spawn_pty")
    /\ UNCHANGED <<process, dims, shutdownPending, fwdPc>>
    /\ UNCHANGED <<evPos, announced, outputSeen>>
    /\ UNCHANGED <<mgrVars, ptyVars, mfVars, histVars, apiVars>>

\* AgentSession::spawn, from PtyProcess::spawn on, for a caller that holds the
\* session: as SessionSpawnPty, and spawn returns to the caller.  A session
\* whose PTY was started once gets no second one here: its PtyProcess::spawn
\* fails.
SessionSpawnReturn(c, ptyOk) ==
    /\ connPc[c] = "sess_spawn_pty"
    /\ ptyOk => (readerPc[connArg[c]] = "none" /\ AgentsStarted < MaxAgents)
    /\ IF ptyOk
       THEN /\ readerPc' = [readerPc EXCEPT ![connArg[c]] = "read"]
            /\ process' = [process EXCEPT ![connArg[c]] = TRUE]
            /\ sState' = [sState EXCEPT ![connArg[c]] = "Running"]
            /\ fwdPc' = [fwdPc EXCEPT ![connArg[c]] = "wait"]
            /\ Result(c, connArg[c], "reply_Ok")
       ELSE /\ Result(c, connArg[c], "err_SpawnFailed")
            /\ UNCHANGED <<readerPc, process, sState, fwdPc>>
    /\ UNCHANGED <<dims, shutdownPending>>
    /\ UNCHANGED <<exited, exitInfo, ptyOut, ptyShutdown, nRead, childEof>>
    /\ UNCHANGED <<evPos, announced, outputSeen>>
    /\ UNCHANGED <<mgrVars, mfVars, histVars, apiVars>>

\* AgentSession::kill on a session the caller holds, up to its
\* process.read().await: state = Stopping, shutdown_tx.send(()).  KillPty
\* is the rest of it.
SessionKill(c, id) ==
    /\ connPc[c] = "idle"
    /\ sState[id] # "none"
    /\ nKills < MaxKills
    /\ nKills' = nKills + 1
    /\ sState' = [sState EXCEPT ![id] = "Stopping"]
    /\ shutdownPending' = [shutdownPending EXCEPT ![id] = @ \/ FwdAlive(id)]
    /\ kills' = [kills EXCEPT ![id] = IF @ = "ok" THEN @ ELSE "issued"]
    /\ Result(c, id, "kill_pty")
    /\ UNCHANGED <<process, dims, fwdPc, nResized>>
    /\ UNCHANGED <<evPos, announced, outputSeen>>
    /\ UNCHANGED <<mgrVars, ptyVars, mfVars, apiVars>>

\* =========================== AgentManager: send_input, lookups, shutdown_all
\* send_input: sessions.read().await; get (AgentNotFound if absent);
\* session.write_str up to PtyProcess::write's check, the read guard held.
SendInput(c, id) ==
    /\ connPc[c] = "idle"
    /\ CanRegRead
    /\ IF id \notin registry
       THEN Result(c, id, "err_AgentNotFound")
       ELSE /\ ~ProcWriteHeld(id)
            /\ (process[id] /\ ~exited[id]) => InputsWritten < MaxInputs
            /\ WriteInputCheck(c, id)
    /\ UNCHANGED <<evPos, announced, outputSeen>>
    /\ UNCHANGED <<mgrVars, sessVars, ptyVars, mfVars, histVars, apiVars>>

\* KillAgentNotFound with the first block of kill_agent left out: the call
\* goes on to the second block, which skips an absent id and returns Ok
KillAgentNoCheck(c, id) ==
    /\ connPc[c] = "idle"
    /\ CanRegRead
    /\ id \notin registry
    /\ Result(c, id, "kill_lookup")
    /\ UNCHANGED <<evPos, announced, outputSeen>>
    /\ UNCHANGED <<mgrVars, sessVars, ptyVars, mfVars, histVars, apiVars>>

\* kill_agent, first block, the id absent: Err(AgentNotFound)
KillAgentNotFound(c, id) ==
    /\ connPc[c] = "idle"
    /\ CanRegRead
    /\ id \notin registry
    /\ Result(c, id, "err_AgentNotFound")
    /\ UNCHANGED <<evPos, announced, outputSeen>>
    /\ UNCHANGED <<mgrVars, sessVars, ptyVars, mfVars, histVars, apiVars>>

\* kill_agent(id), whatever the registry holds
KillAgentCall(c, id) == KillCheck(c, id) \/ KillAgentNotFound(c, id)

\* resize_agent: sessions.write().await; get_mut, the id absent:
\* Err(AgentNotFound)
ResizeAgentNotFound(c, id) ==
    /\ connPc[c] = "idle"
    /\ CanRegWrite
    /\ id \notin registry
    /\ Result(c, id, "err_AgentNotFound")
    /\ UNCHANGED <<evPos, announced, outputSeen>>
    /\ UNCHANGED <<mgrVars, sessVars, ptyVars, mfVars, histVars, apiVars>>

\* the Err of resize_agent on a registered session: NotRunning with no
\* process, ProcessExited once exited is set, ResizeFailed when the resize of
\* the PTY master fails
ResizeErrors(id) ==
    IF ~process[id] THEN {"err_NotRunning"}
    ELSE IF exited[id] THEN {"err_ProcessExited"}
    ELSE {"err_ResizeFailed"}

\* ResizeAgentFails storing the requested size before the PTY is asked
ResizeAgentFailsStoresDims(c, id, err) ==
    /\ connPc[c] = "idle"
    /\ CanRegWrite
    /\ id \in registry
    /\ ~ProcWriteHeld(id)
    /\ err \in ResizeErrors(id)
    /\ dims' = [dims EXCEPT ![id] = ResizeDims]
    /\ Result(c, id, err)
    /\ UNCHANGED <<sState, process, shutdownPending, fwdPc>>
    /\ UNCHANGED <<evPos, announced, outputSeen>>
    /\ UNCHANGED <<mgrVars, ptyVars, mfVars, histVars, apiVars>>

\* resize_agent on a registered session, session.resize(cols, rows).await?
\* returns Err: cols / rows are assigned after process.resize(..)?, the event
\* is sent after session.resize(..)?; the write guard is dropped
ResizeAgentFails(c, id, err) ==
    /\ connPc[c] = "idle"
    /\ CanRegWrite
    /\ id \in registry
    /\ ~ProcWriteHeld(id)
    /\ err \in ResizeErrors(id)
    /\ Result(c, id, err)
    /\ UNCHANGED <<evPos, announced, outputSeen>>
    /\ UNCHANGED <<mgrVars, sessVars, ptyVars, mfVars, histVars, apiVars>>

\* resize_agent(id, cols, rows), whatever the registry holds
ResizeAgentCall(c, id) == ResizeAgent(c, id) \/ ResizeAgentNotFound(c, id)

\* get_agent_status: sessions.read().await; get (AgentNotFound if absent);
\* Ok(AgentInfo {..})
GetAgentStatus(c, id) ==
    /\ connPc[c] = "idle"
    /\ CanRegRead
    /\ Result(c, id, IF id \in registry THEN "reply_Ok" ELSE "err_AgentNotFound")
    /\ UNCHANGED <<evPos, announced, outputSeen>>
    /\ UNCHANGED <<mgrVars, sessVars, ptyVars, mfVars, histVars, apiVars>>

\* agent_state: sessions.read().await; get (AgentNotFound if absent);
\* Ok(session.state().await)
AgentStateOf(c, id) ==
    /\ connPc[c] = "idle"
    /\ CanRegRead
    /\ Result(c, id, IF id \in registry THEN "reply_Ok" ELSE "err_AgentNotFound")
    /\ UNCHANGED <<evPos, announced, outputSeen>>
    /\ UNCHANGED <<mgrVars, sessVars, ptyVars, mfVars, histVars, apiVars>>

\* shutdown_all: sessions.read().await; keys().copied().collect()
ShutdownAllStart ==
    /\ sa.pc = "none"
    /\ CanRegRead
    /\ sa' = [pc |-> "loop", todo |-> registry, arg |-> 0]
    /\ UNCHANGED <<written, wsVars, decVars, cbVars>>
    /\ UNCHANGED <<mgrVars, sessVars, ptyVars, mfVars, connVars, histVars>>

\* shutdown_all: for agent_id in agent_ids { kill_agent(agent_id) }, the first
\* block of kill_agent; an Err(AgentNotFound) is logged and the loop goes on
ShutdownAllKillCheck(id) ==
    /\ sa.pc = "loop"
    /\ id \in sa.todo
    /\ CanRegRead
    /\ id \in registry => nKills < MaxKills
    /\ nKills' = IF id \in registry THEN nKills + 1 ELSE nKills
    /\ sa' = [pc |-> IF id \in registry THEN "kill_lookup" ELSE "loop",
              todo |-> sa.todo \ {id},
              arg |-> IF id \in registry THEN id ELSE 0]
    /\ UNCHANGED <<written, wsVars, decVars, cbVars, kills, nResized>>
    /\ UNCHANGED <<mgrVars, sessVars, ptyVars, mfVars, connVars>>

\* the second block of kill_agent, as KillLookup
ShutdownAllKillLookup ==
    /\ sa.pc = "kill_lookup"
    /\ CanRegRead
    /\ IF sa.arg \in registry
       THEN /\ sState' = [sState EXCEPT ![sa.arg] = "Stopping"]
            /\ shutdownPending' = [shutdownPending EXCEPT ![sa.arg] =
                                      @ \/ FwdAlive(sa.arg)]
            /\ kills' = [kills EXCEPT ![sa.arg] = IF @ = "ok" THEN @ ELSE "issued"]
            /\ sa' = [sa EXCEPT !.pc = "kill_pty"]
       ELSE /\ sa' = [sa EXCEPT !.pc = "loop", !.arg = 0]
            /\ UNCHANGED <<sState, shutdownPending, kills>>
    /\ UNCHANGED <<process, dims, fwdPc, nKills, nResized, written, wsVars, decVars, cbVars>>
    /\ UNCHANGED <<mgrVars, ptyVars, mfVars, connVars>>

\* the rest of AgentSession::kill, as KillPty; kill_agent returns Ok
ShutdownAllKillPty ==
    /\ sa.pc = "kill_pty"
    /\ ~ProcWriteHeld(sa.arg)
    /\ IF process[sa.arg]
       THEN /\ ptyShutdown' = [ptyShutdown EXCEPT ![sa.arg] = @ \/ ReaderAlive(sa.arg)]
            /\ exited' = [exited EXCEPT ![sa.arg] = TRUE]
            /\ exitInfo' = [exitInfo EXCEPT ![sa.arg] = "Killed"]
       ELSE UNCHANGED <<ptyShutdown, exited, exitInfo>>
    /\ kills' = [kills EXCEPT ![sa.arg] = "ok"]
    /\ sa' = [sa EXCEPT !.pc = "loop", !.arg = 0]
    /\ UNCHANGED <<ptyOut, readerPc, nRead, childEof, nKills, nResized, written, wsVars, decVars, cbVars>>
    /\ UNCHANGED <<mgrVars, sessVars, mfVars, connVars>>

\* shutdown_all: the loop is over
ShutdownAllEnd ==
    /\ sa.pc = "loop"
    /\ sa.todo = {}
    /\ sa' = [sa EXCEPT !.pc = "done"]
    /\ UNCHANGED <<written, wsVars, decVars, cbVars>>
    /\ UNCHANGED <<mgrVars, sessVars, ptyVars, mfVars, connVars, histVars>>

ShutdownAll ==
    \/ ShutdownAllStart
    \/ \E id \in Ids : ShutdownAllKillCheck(id)
    \/ ShutdownAllKillLookup
    \/ ShutdownAllKillPty
    \/ ShutdownAllEnd

\* ================================================================== system
\* the PTY reader threads, the session forwarders, the manager's forwarding tasks
Tasks ==
    \/ \E s \in Ids : ReaderChunk(s)
    \/ \E s \in Ids : ReaderShutdown(s)
    \/ \E s \in Ids, reason \in {"Normal", "Unknown"}, rt \in BOOLEAN : ReaderEnd(s, reason, rt)
    \/ \E s \in Ids : ReaderExitInfo(s)
    \/ \E s \in Ids : FwdShutdown(s)
    \/ \E s \in Ids : FwdWake(s)
    \/ \E s \in Ids : FwdDrain(s)
    \/ \E s \in Ids : FwdCheck(s)
    \/ \E s \in Ids : MfOutput(s)
    \/ \E s \in Ids : MfExit(s)
    \/ \E s \in Ids : MfRemove(s)

SpawnAgent ==
    \/ \E c \in Conns, pathOk \in BOOLEAN : SpawnAgentNew(c, pathOk)
    \/ \E c \in Conns, ptyOk \in BOOLEAN : SessionSpawnPty(c, ptyOk)
    \/ \E c \in Conns : SetupOutputForwarding(c)
    \/ \E c \in Conns : SpawnInsert(c)
    \/ \E c \in Conns : SpawnPublish(c)

KillAgent ==
    \/ \E c \in Conns, id \in Ids : KillCheck(c, id)
    \/ \E c \in Conns : KillLookup(c)
    \/ \E c \in Conns : KillPty(c)

ResizeTerminal ==
    \/ \E c \in Conns, id \in Ids : ResizeAgent(c, id)
    \/ \E c \in Conns : ResizePublish(c)

\* The manager under the requests of its connected clients.  What a handler
\* forwards from the bus to its client changes nothing the manager reads and
\* is left to ClientSpec.
Next == Tasks \/ SpawnAgent \/ KillAgent \/ ResizeTerminal

Spec == Init /\ [][Next]_vars

\* The connections' side: clients connect at any time, spawn agents and are
\* sent what the bus carries.
ClientNext ==
    \/ \E c \in Conns : ConnAccept(c)
    \/ \E c \in Conns : ConnEvent(c)
    \/ SpawnAgent
    \/ \E s \in Ids : ReaderChunk(s)
    \/ \E s \in Ids, reason \in {"Normal", "Unknown"}, rt \in BOOLEAN : ReaderEnd(s, reason, rt)
    \/ \E s \in Ids : ReaderExitInfo(s)
    \/ \E s \in Ids : FwdWake(s)
    \/ \E s \in Ids : FwdDrain(s)
    \/ \E s \in Ids : FwdCheck(s)
    \/ \E s \in Ids : MfOutput(s)
    \/ \E s \in Ids : MfExit(s)
    \/ \E s \in Ids : MfRemove(s)

ClientSpec == InitListening /\ [][ClientNext]_vars

\* AgentSession::new for the ids of Held: state Stopped, no process, nothing
\* running.  The callers hold the sessions themselves; there is no manager.
InitSessions ==
    /\ registry = {}
    /\ bus = <<>>
    /\ nextId = MaxHeld + 1
    /\ sState = [s \in Ids |-> IF s \in Held THEN "Stopped" ELSE "none"]
    /\ process = [s \in Ids |-> FALSE]
    /\ dims = [s \in Ids |-> DefaultDims]
    /\ shutdownPending = [s \in Ids |-> FALSE]
    /\ fwdPc = [s \in Ids |-> "none"]
    /\ exited = [s \in Ids |-> FALSE]
    /\ exitInfo = [s \in Ids |-> "None"]
    /\ ptyOut = [s \in Ids |-> <<>>]
    /\ ptyShutdown = [s \in Ids |-> FALSE]
    /\ readerPc = [s \in Ids |-> "none"]
    /\ nRead = [s \in Ids |-> 0]
    /\ childEof = [s \in Ids |-> FALSE]
    /\ outRx = [s \in Ids |-> <<>>]
    /\ exitRx = [s \in Ids |-> <<>>]
    /\ mfPc = [s \in Ids |-> "none"]
    /\ connPc = [c \in Conns |-> "idle"]
    /\ connArg = [c \in Conns |-> 0]
    /\ evPos = [c \in Conns |-> 1]
    /\ announced = [c \in Conns |-> {}]
    /\ outputSeen = [c \in Conns |-> {}]
    /\ kills = [s \in Ids |-> "none"]
    /\ nKills = 0
    /\ nResized = 0
    /\ written = [s \in Ids |-> 0]
    /\ sa = [pc |-> "none", todo |-> {}, arg |-> 0]
    /\ token = FALSE
    /\ srv = [signal |-> FALSE, pc |-> "run"]
    /\ shutRx = [c \in Conns |-> FALSE]
    /\ sent = [c \in Conns |-> <<>>]
    /\ frame = NoFrame
    /\ outcome = NoOutcome
    /\ lagged = [id \in Ids |-> FALSE]
    /\ cb = NoCallbacks

\* Sessions used through the AgentSession API by the tasks that hold them.
SessionNext ==
    \/ \E c \in Conns, id \in Held, pathOk \in BOOLEAN : SessionSpawn(c, id, pathOk)
    \/ \E c \in Conns, ptyOk \in BOOLEAN : SessionSpawnReturn(c, ptyOk)
    \/ \E c \in Conns, id \in Held : SessionKill(c, id)
    \/ \E c \in Conns : KillPty(c)
    \/ \E c \in Conns, id \in Held : SessionWriteInput(c, id)
    \/ \E c \in Conns, ok \in BOOLEAN : InputWrite(c, ok)
    \/ \E c \in Conns, id \in Held : SessionResize(c, id)
    \/ \E c \in Conns : ConnReply(c)
    \/ \E s \in Held : ReaderChunk(s)
    \/ \E s \in Held : ReaderShutdown(s)
    \/ \E s \in Held, reason \in {"Normal", "Unknown"}, rt \in BOOLEAN : ReaderEnd(s, reason, rt)
    \/ \E s \in Held : ReaderExitInfo(s)
    \/ \E s \in Held : FwdShutdown(s)
    \/ \E s \in Held : FwdWake(s)
    \/ \E s \in Held : FwdDrain(s)
    \/ \E s \in Held : FwdCheck(s)

SessionSpec == InitSessions /\ [][SessionNext]_vars

\* the connections whose client uses the whole of the manager's interface
ApiConns == 1..MaxApiConns

\* The manager with every operation of its interface in use, over children
\* that write nothing to their PTY.
ApiNext ==
    \/ \E s \in Ids : ReaderShutdown(s)
    \/ \E s \in Ids, reason \in {"Normal", "Unknown"}, rt \in BOOLEAN : ReaderEnd(s, reason, rt)
    \/ \E s \in Ids : ReaderExitInfo(s)
    \/ \E s \in Ids : FwdShutdown(s)
    \/ \E s \in Ids : FwdWake(s)
    \/ \E s \in Ids : FwdCheck(s)
    \/ \E s \in Ids : MfExit(s)
    \/ \E s \in Ids : MfRemove(s)
    \/ ShutdownAll
    \/ \E c \in ApiConns, pathOk \in BOOLEAN : SpawnAgentNew(c, pathOk)
    \/ \E c \in ApiConns, ptyOk \in BOOLEAN : SessionSpawnPty(c, ptyOk)
    \/ \E c \in ApiConns : SetupOutputForwarding(c)
    \/ \E c \in ApiConns : SpawnInsert(c)
    \/ \E c \in ApiConns : SpawnPublish(c)
    \/ \E c \in ApiConns, id \in Ids : KillAgentCall(c, id)
    \/ \E c \in ApiConns : KillLookup(c)
    \/ \E c \in ApiConns : KillPty(c)
    \/ \E c \in ApiConns, id \in Ids : ResizeAgentCall(c, id)
    \/ \E c \in ApiConns : ResizePublish(c)
    \/ \E c \in ApiConns, id \in Ids, err \in ErrPcs : ResizeAgentFails(c, id, err)
    \/ \E c \in ApiConns, id \in Ids : SendInput(c, id)
    \/ \E c \in ApiConns, ok \in BOOLEAN : InputWrite(c, ok)
    \/ \E c \in ApiConns, id \in Ids : GetAgentStatus(c, id)
    \/ \E c \in ApiConns, id \in Ids : AgentStateOf(c, id)
    \/ \E c \in ApiConns : ConnReply(c)

ApiSpec == Init /\ [][ApiNext]_vars


\* ======================================================== protocol codec
PROTOCOL_VERSION == 1
MIN_PROTOCOL_VERSION == 1
MAX_TERMINAL_COLS == 500
MAX_TERMINAL_ROWS == 200
MAX_INPUT_LENGTH == 1024 * 1024
MAX_PATH_LENGTH == 4096
MAX_PRESET_NAME_LENGTH == 256
\* kill_agent.signal: the last valid Unix signal number
MaxSignal == 31

\* the range of u16 (cols, rows).  The numbers written in a frame are below
\* 2^31: each fits i32 (signal), and fits u32 (version) unless it is negative.
U16 == 0..(2^16 - 1)

\* Option<T>
None == [some |-> FALSE, v |-> 0]
Some(x) == [some |-> TRUE, v |-> x]

\* the variants of ClientMessage, by their 'type' tag
MessageTypes == {"ping", "spawn_agent", "agent_input", "kill_agent",
                 "resize_terminal", "list_agents", "get_agent_status"}

\* A text frame as the decoder sees it.  wellFormed: the text is a JSON object
\* whose fields have the JSON types of their variant and whose required
\* fields are there; the numbers are the numbers written in the text; the
\* strings count by their length in bytes.  A field its variant does not have
\* is left at None / 0.
TextFrame(ver, type, pathLen, preset, cols, rows, inputLen, signal) ==
    [wellFormed |-> TRUE, version |-> ver, type |-> type, pathLen |-> pathLen,
     preset |-> preset, cols |-> cols, rows |-> rows, inputLen |-> inputLen,
     signal |-> signal]

\* serde_json::from_str::<ClientEnvelope>: the text is JSON, the tag names a
\* variant, every number fits the type of its field; resize_terminal requires
\* cols and rows
Deserializes(f) ==
    /\ f.wellFormed
    /\ f.type \in MessageTypes
    /\ f.version.some => f.version.v >= 0
    /\ f.type \in {"spawn_agent", "resize_terminal"} =>
           /\ f.cols.some => f.cols.v \in U16
           /\ f.rows.some => f.rows.v \in U16
    /\ f.type = "resize_terminal" => f.cols.some /\ f.rows.some

\* ClientEnvelope.version: #[serde(default = "default_version")]
VersionOf(f) == IF f.version.some THEN f.version.v ELSE PROTOCOL_VERSION

\* ValidateMessage with the upper bound of cols exclusive
ValidateMessageColsExclusive(f) ==
    CASE f.type = "spawn_agent" ->
             IF f.pathLen = 0 THEN "ValidationError"
             ELSE IF f.pathLen > MAX_PATH_LENGTH THEN "ValidationError"
             ELSE IF f.preset.some /\ f.preset.v = 0 THEN "ValidationError"
             ELSE IF f.preset.some /\ f.preset.v > MAX_PRESET_NAME_LENGTH THEN "ValidationError"
             ELSE IF f.cols.some /\ (f.cols.v = 0 \/ f.cols.v >= MAX_TERMINAL_COLS) THEN "ValidationError"
             ELSE IF f.rows.some /\ (f.rows.v = 0 \/ f.rows.v > MAX_TERMINAL_ROWS) THEN "ValidationError"
             ELSE "Ok"
      [] f.type = "agent_input" ->
             IF f.inputLen > MAX_INPUT_LENGTH THEN "ValidationError" ELSE "Ok"
      [] f.type = "kill_agent" ->
             IF f.signal.some /\ (f.signal.v < 1 \/ f.signal.v > MaxSignal)
             THEN "ValidationError" ELSE "Ok"
      [] f.type = "resize_terminal" ->
             IF f.cols.v = 0 \/ f.cols.v >= MAX_TERMINAL_COLS THEN "ValidationError"
             ELSE IF f.rows.v = 0 \/ f.rows.v > MAX_TERMINAL_ROWS THEN "ValidationError"
             ELSE "Ok"
      [] OTHER -> "Ok"

\* ClientMessage::validate, on a message that deserialized: the checks in the
\* order of the code, the first that fails returning ValidationError
ValidateMessage(f) ==
    CASE f.type = "spawn_agent" ->
             IF f.pathLen = 0 THEN "ValidationError"
             ELSE IF f.pathLen > MAX_PATH_LENGTH THEN "ValidationError"
             ELSE IF f.preset.some /\ f.preset.v = 0 THEN "ValidationError"
             ELSE IF f.preset.some /\ f.preset.v > MAX_PRESET_NAME_LENGTH THEN "ValidationError"
             ELSE IF f.cols.some /\ (f.cols.v = 0 \/ f.cols.v > MAX_TERMINAL_COLS) THEN "ValidationError"
             ELSE IF f.rows.some /\ (f.rows.v = 0 \/ f.rows.v > MAX_TERMINAL_ROWS) THEN "ValidationError"
             ELSE "Ok"
      [] f.type = "agent_input" ->
             IF f.inputLen > MAX_INPUT_LENGTH THEN "ValidationError" ELSE "Ok"
      [] f.type = "kill_agent" ->
             IF f.signal.some /\ (f.signal.v < 1 \/ f.signal.v > MaxSignal)
             THEN "ValidationError" ELSE "Ok"
      [] f.type = "resize_terminal" ->
             IF f.cols.v = 0 \/ f.cols.v > MAX_TERMINAL_COLS THEN "ValidationError"
             ELSE IF f.rows.v = 0 \/ f.rows.v > MAX_TERMINAL_ROWS THEN "ValidationError"
             ELSE "Ok"
      [] OTHER -> "Ok"

\* EnvelopeValidate with the version check after the message's validation
EnvelopeValidateMessageFirst(f) ==
    IF ValidateMessage(f) # "Ok" THEN ValidateMessage(f)
    ELSE IF VersionOf(f) < MIN_PROTOCOL_VERSION THEN "UnsupportedVersion"
    ELSE "Ok"

\* ClientEnvelope::validate: the version check, then the message
EnvelopeValidate(f) ==
    IF VersionOf(f) < MIN_PROTOCOL_VERSION THEN "UnsupportedVersion"
    ELSE ValidateMessage(f)

\* ClientEnvelope::from_json: serde_json::from_str(json)?; validate()?
FromJson(f) ==
    IF ~Deserializes(f) THEN "SerializationError" ELSE EnvelopeValidate(f)

\* ------------------------------------------------- the frames under test
\* the versions, sizes and lengths written in the frames: every bound of the
\* protocol with the value on each side of it, and the values next to the
\* limits of the field types
TestVersions == {None, Some(-1), Some(0), Some(1), Some(2), Some(2^30)}
TestCols == {None, Some(0), Some(1), Some(80), Some(500), Some(501), Some(2^16)}
TestRows == {None, Some(0), Some(1), Some(24), Some(200), Some(201), Some(-1)}
TestPathLens == {0, 1, 4096, 4097}
TestPresets == {None, Some(0), Some(1), Some(256), Some(257)}
TestInputLens == {0, 5, 1048576, 1048577}
TestSignals == {None, Some(-1), Some(0), Some(1), Some(15), Some(31), Some(32), Some(100)}

\* a text that is not JSON
Garbled == [TextFrame(None, "ping", 0, None, None, None, 0, None) EXCEPT !.wellFormed = FALSE]

TestFrames ==
    {NoFrame, Garbled}
    \cup {TextFrame(ver, type, 0, None, None, None, 0, None) :
             ver \in TestVersions,
             type \in {"ping", "list_agents", "get_agent_status", "bogus"}}
    \cup {TextFrame(ver, "spawn_agent", pl, pr, c, r, 0, None) :
             ver \in {None, Some(0)}, pl \in TestPathLens, pr \in TestPresets,
             c \in TestCols, r \in TestRows}
    \cup {TextFrame(ver, "agent_input", 0, None, None, None, il, None) :
             ver \in TestVersions, il \in TestInputLens}
    \cup {TextFrame(ver, "kill_agent", 0, None, None, None, 0, sig) :
             ver \in TestVersions, sig \in TestSignals}
    \cup {TextFrame(ver, "resize_terminal", 0, None, c, r, 0, None) :
             ver \in TestVersions, c \in TestCols, r \in TestRows}

\* a text frame has arrived; nothing is decoded yet
InitDecode ==
    \E f \in TestFrames \ {NoFrame} :
        /\ frame = f
        /\ outcome = NoOutcome
        /\ lagged = [id \in Ids |-> FALSE]
        /\ cb = NoCallbacks
        /\ token = FALSE
        /\ srv = [signal |-> FALSE, pc |-> "run"]
        /\ shutRx = [c \in Conns |-> FALSE]
        /\ sent = [c \in Conns |-> <<>>]
        /\ registry = {}
        /\ bus = <<>>
        /\ nextId = 1
        /\ sState = [s \in Ids |-> "none"]
        /\ process = [s \in Ids |-> FALSE]
        /\ dims = [s \in Ids |-> DefaultDims]
        /\ shutdownPending = [s \in Ids |-> FALSE]
        /\ fwdPc = [s \in Ids |-> "none"]
        /\ exited = [s \in Ids |-> FALSE]
        /\ exitInfo = [s \in Ids |-> "None"]
        /\ ptyOut = [s \in Ids |-> <<>>]
        /\ ptyShutdown = [s \in Ids |-> FALSE]
        /\ readerPc = [s \in Ids |-> "none"]
        /\ nRead = [s \in Ids |-> 0]
        /\ childEof = [s \in Ids |-> FALSE]
        /\ outRx = [s \in Ids |-> <<>>]
        /\ exitRx = [s \in Ids |-> <<>>]
        /\ mfPc = [s \in Ids |-> "none"]
        /\ connPc = [c \in Conns |-> "idle"]
        /\ connArg = [c \in Conns |-> 0]
        /\ evPos = [c \in Conns |-> 1]
        /\ announced = [c \in Conns |-> {}]
        /\ outputSeen = [c \in Conns |-> {}]
        /\ kills = [s \in Ids |-> "none"]
        /\ nKills = 0
        /\ nResized = 0
        /\ written = [s \in Ids |-> 0]
        /\ sa = [pc |-> "none", todo |-> {}, arg |-> 0]

\* ClientEnvelope::from_json(text)
DecodeFrame ==
    /\ outcome.by = "none"
    /\ outcome' = [by |-> "from_json", res |-> FromJson(frame)]
    /\ UNCHANGED frame
    /\ UNCHANGED <<mgrVars, sessVars, ptyVars, mfVars, connVars, histVars>>
    /\ UNCHANGED <<written, sa, wsVars, cbVars>>

\* ClientMessage::validate() called on the message of the frame
ValidateFrame ==
    /\ outcome.by = "none"
    /\ Deserializes(frame)
    /\ outcome' = [by |-> "validate", res |-> ValidateMessage(frame)]
    /\ UNCHANGED frame
    /\ UNCHANGED <<mgrVars, sessVars, ptyVars, mfVars, connVars, histVars>>
    /\ UNCHANGED <<written, sa, wsVars, cbVars>>

DecodeNext ==
    \/ DecodeFrame
    \/ ValidateFrame

\* The codec alone, on each of the frames under test.
DecodeSpec == InitDecode /\ [][DecodeNext]_vars


\* ================================================== server/websocket.rs
\* ServerMessage::error_with_code / ServerMessage::agent_error
ErrorWithCode(code) == Msg("error", code, 0)
AgentError(id, code) == Msg("error", code, id)
Pong(seq) == [Msg("pong", "", 0) EXCEPT !.seq = seq]
AuthSuccess == Msg("auth_success", "", 0)

\* ws_sender.send(Message::Text(..)) to the client of c
Send(c, m) == sent' = [sent EXCEPT ![c] = Append(@, m)]

\* the requests the handler of c has answered itself in its main loop
Answered(c) == Len(SelectSeq(sent[c], LAMBDA m : m.t \notin {"welcome", "auth_success"}))

\* the handler of c runs: it was accepted and has not returned
HandlerAlive(c) == connPc[c] \notin {"closed", "end_auth", "end_client", "end_shutdown", "dropped"}

\* WebSocketServer::run, listener.accept(): shutdown_tx.subscribe() (the new
\* receiver sees the signals sent from now on), tokio::spawn(handle_connection);
\* handle_connection up to the auth gate: the WebSocket is accepted and welcome
\* is sent; with no token the handler subscribes to the bus and enters its loop.
Accept(c) ==
    /\ srv.pc = "run"
    /\ connPc[c] = "closed"
    /\ connPc' = [connPc EXCEPT ![c] = IF token THEN "auth" ELSE "idle"]
    /\ evPos' = [evPos EXCEPT ![c] = Len(bus) + 1]
    /\ shutRx' = [shutRx EXCEPT ![c] = FALSE]
    /\ Send(c, Welcome)
    /\ UNCHANGED <<connArg, announced, outputSeen>>
    /\ UNCHANGED <<token, srv, decVars, cbVars, written, sa>>
    /\ UNCHANGED <<mgrVars, sessVars, ptyVars, mfVars, histVars>>

\* what a client can send first: authenticate with the configured token, with
\* another token, a message of another type, a text that is no ClientMessage
AuthInputs == {"token_ok", "token_wrong", "other_message", "no_message"}

\* AuthText letting a message of another type through the gate
AuthTextAnyMessage(c, m) ==
    /\ connPc[c] = "auth"
    /\ IF m \in {"token_ok", "other_message"}
       THEN /\ Send(c, AuthSuccess)
            /\ evPos' = [evPos EXCEPT ![c] = Len(bus) + 1]
            /\ connPc' = [connPc EXCEPT ![c] = "idle"]
       ELSE /\ Send(c, ErrorWithCode("auth_failed"))
            /\ connPc' = [connPc EXCEPT ![c] = "end_auth"]
            /\ UNCHANGED evPos
    /\ UNCHANGED <<connArg, announced, outputSeen>>
    /\ UNCHANGED <<token, srv, shutRx, decVars, cbVars, written, sa>>
    /\ UNCHANGED <<mgrVars, sessVars, ptyVars, mfVars, histVars>>

\* wait_for_auth, Ok(Message::Text(text)), and what handle_connection does
\* with its result: Ok(()) for authenticate with the expected token
\* (auth_success, subscribe to the bus, enter the loop); Err for a text that
\* does not parse, another message, another token (error auth_failed, Close,
\* return).
AuthText(c, m) ==
    /\ connPc[c] = "auth"
    /\ IF m = "token_ok"
       THEN /\ Send(c, AuthSuccess)
            /\ evPos' = [evPos EXCEPT ![c] = Len(bus) + 1]
            /\ connPc' = [connPc EXCEPT ![c] = "idle"]
       ELSE /\ Send(c, ErrorWithCode("auth_failed"))
            /\ connPc' = [connPc EXCEPT ![c] = "end_auth"]
            /\ UNCHANGED evPos
    /\ UNCHANGED <<connArg, announced, outputSeen>>
    /\ UNCHANGED <<token, srv, shutRx, decVars, cbVars, written, sa>>
    /\ UNCHANGED <<mgrVars, sessVars, ptyVars, mfVars, histVars>>

\* tokio::time::timeout(30 s) elapses in the gate: error auth_failed, Close,
\* return
AuthTimeout(c) ==
    /\ connPc[c] = "auth"
    /\ Send(c, ErrorWithCode("auth_failed"))
    /\ connPc' = [connPc EXCEPT ![c] = "end_auth"]
    /\ UNCHANGED <<connArg, evPos, announced, outputSeen>>
    /\ UNCHANGED <<token, srv, shutRx, decVars, cbVars, written, sa>>
    /\ UNCHANGED <<mgrVars, sessVars, ptyVars, mfVars, histVars>>

\* wait_for_auth, Message::Close / Err / end of stream: the client is gone in
\* the gate; the send of the error fails and the handler returns
AuthGone(c) ==
    /\ connPc[c] = "auth"
    /\ connPc' = [connPc EXCEPT ![c] = "end_client"]
    /\ UNCHANGED <<connArg, evPos, announced, outputSeen>>
    /\ UNCHANGED <<wsVars, decVars, cbVars, written, sa>>
    /\ UNCHANGED <<mgrVars, sessVars, ptyVars, mfVars, histVars>>

\* -------------------------------------------------- the handler's main loop
\* impl From<ProtocolError> for ServerMessage: the error code of a decoding
\* failure
ErrorCodeOf(err) ==
    CASE err = "SerializationError" -> "invalid_message"
      [] err = "UnsupportedVersion" -> "unsupported_version"
      [] err = "InvalidMessage" -> "invalid_message"
      [] err = "ValidationError" -> "invalid_message"

\* text frames whose decoding fails: no JSON, an unknown 'type', a version
\* below the minimum, cols = 0, cols beyond u16
BadFrames ==
    {Garbled,
     TextFrame(None, "bogus", 0, None, None, None, 0, None),
     TextFrame(Some(0), "ping", 0, None, None, None, 0, None),
     TextFrame(None, "resize_terminal", 0, None, Some(0), Some(24), 0, None),
     TextFrame(None, "resize_terminal", 0, None, Some(2^16), Some(24), 0, None)}

\* TextRejected ending the connection after its reply
TextRejectedCloses(c, f) ==
    /\ connPc[c] = "idle"
    /\ Answered(c) < MaxReplies
    /\ FromJson(f) # "Ok"
    /\ Send(c, ErrorWithCode("internal_error"))
    /\ connPc' = [connPc EXCEPT ![c] = "end_client"]
    /\ UNCHANGED <<connArg, evPos, announced, outputSeen>>
    /\ UNCHANGED <<token, srv, shutRx, decVars, cbVars, written, sa>>
    /\ UNCHANGED <<mgrVars, sessVars, ptyVars, mfVars, histVars>>

\* handle_connection, Message::Text(text) whose decoding fails: handle_message
\* returns Err at ClientEnvelope::from_json(text)?, the handler answers
\* error_with_code(e.to_string(), InternalError) and polls its select! again.
TextRejected(c, f) ==
    /\ connPc[c] = "idle"
    /\ Answered(c) < MaxReplies
    /\ FromJson(f) # "Ok"
    /\ Send(c, ErrorWithCode("internal_error"))
    /\ UNCHANGED connVars
    /\ UNCHANGED <<token, srv, shutRx, decVars, cbVars, written, sa>>
    /\ UNCHANGED <<mgrVars, sessVars, ptyVars, mfVars, histVars>>

\* the seq of the pings the clients send (spec scenario 1; the handler's test)
PingSeqs == {7, 42}

\* Ping answering with the seq of a fresh counter instead of the ping's own
PingCountsItself(c, seq) ==
    /\ connPc[c] = "idle"
    /\ Answered(c) < MaxReplies
    /\ Send(c, Pong(Answered(c)))
    /\ UNCHANGED connVars
    /\ UNCHANGED <<token, srv, shutRx, decVars, cbVars, written, sa>>
    /\ UNCHANGED <<mgrVars, sessVars, ptyVars, mfVars, histVars>>

\* handle_message, ClientMessage::Ping { seq }: Pong { seq }
Ping(c, seq) ==
    /\ connPc[c] = "idle"
    /\ Answered(c) < MaxReplies
    /\ Send(c, Pong(seq))
    /\ UNCHANGED connVars
    /\ UNCHANGED <<token, srv, shutRx, decVars, cbVars, written, sa>>
    /\ UNCHANGED <<mgrVars, sessVars, ptyVars, mfVars, histVars>>

\* handle_message, ClientMessage::SpawnAgent whose project_path does not exist
\* or is no directory: error invalid_path, spawn_agent is not called
InvalidPath(c) ==
    /\ connPc[c] = "idle"
    /\ Answered(c) < MaxReplies
    /\ Send(c, ErrorWithCode("invalid_path"))
    /\ UNCHANGED connVars
    /\ UNCHANGED <<token, srv, shutRx, decVars, cbVars, written, sa>>
    /\ UNCHANGED <<mgrVars, sessVars, ptyVars, mfVars, histVars>>

\* the requests that name an agent
LookupTypes == {"agent_input", "kill_agent", "resize_terminal", "get_agent_status"}

\* handle_message, the arms of the requests that name an agent: the reply to
\* an Err of the manager's call
ErrorResponse(type, id) ==
    CASE type = "agent_input" -> AgentError(id, "internal_error")
      [] type = "kill_agent" -> AgentError(id, "internal_error")
      [] type = "resize_terminal" -> AgentError(id, "internal_error")
      [] type = "get_agent_status" -> AgentError(id, "agent_not_found")

\* handle_message, a request that names an id the registry does not hold:
\* send_input, kill_agent (first block) and get_agent_status take the read
\* lock, resize_agent the write lock; the lookup fails with AgentNotFound and
\* the arm's error reply is sent.
RequestAbsent(c, type, id) ==
    /\ connPc[c] = "idle"
    /\ Answered(c) < MaxReplies
    /\ IF type = "resize_terminal" THEN CanRegWrite ELSE CanRegRead
    /\ id \notin registry
    /\ Send(c, ErrorResponse(type, id))
    /\ UNCHANGED connVars
    /\ UNCHANGED <<token, srv, shutRx, decVars, cbVars, written, sa>>
    /\ UNCHANGED <<mgrVars, sessVars, ptyVars, mfVars, histVars>>

\* ClientGone killing the sessions the connection had spawned
ClientGoneKillsOwn(c) ==
    /\ connPc[c] = "idle"
    /\ connPc' = [connPc EXCEPT ![c] = "end_client"]
    /\ registry' = registry \ announced[c]
    /\ UNCHANGED <<bus, nextId>>
    /\ UNCHANGED <<connArg, evPos, announced, outputSeen>>
    /\ UNCHANGED <<wsVars, decVars, cbVars, written, sa>>
    /\ UNCHANGED <<sessVars, ptyVars, mfVars, histVars>>

\* handle_connection, ws_receiver.next() yields Message::Close, Err or None:
\* break; the handler returns and its bus subscription is dropped
ClientGone(c) ==
    /\ connPc[c] = "idle"
    /\ connPc' = [connPc EXCEPT ![c] = "end_client"]
    /\ UNCHANGED <<connArg, evPos, announced, outputSeen>>
    /\ UNCHANGED <<wsVars, decVars, cbVars, written, sa>>
    /\ UNCHANGED <<mgrVars, sessVars, ptyVars, mfVars, histVars>>

\* handle_connection, shutdown_rx.recv(): Message::Close is sent; break
ConnShutdown(c) ==
    /\ connPc[c] = "idle"
    /\ shutRx[c]
    /\ connPc' = [connPc EXCEPT ![c] = "end_shutdown"]
    /\ shutRx' = [shutRx EXCEPT ![c] = FALSE]
    /\ UNCHANGED <<connArg, evPos, announced, outputSeen>>
    /\ UNCHANGED <<token, srv, sent, decVars, cbVars, written, sa>>
    /\ UNCHANGED <<mgrVars, sessVars, ptyVars, mfVars, histVars>>

\* ------------------------------------------------------- main and run()
\* main: shutdown_signal() completes (SIGINT / SIGTERM);
\* WebSocketServer::shutdown: shutdown_tx.send(()) reaches the receivers that
\* exist: run()'s own and those of the handlers that run
ShutdownSignal ==
    /\ ~srv.signal
    /\ srv' = [srv EXCEPT !.signal = TRUE]
    /\ shutRx' = [c \in Conns |-> HandlerAlive(c)]
    /\ UNCHANGED <<token, sent, decVars, cbVars, written, sa>>
    /\ UNCHANGED <<mgrVars, sessVars, ptyVars, mfVars, connVars, histVars>>

\* run(), shutdown_rx.recv(): break; session_count() is logged; Ok(())
RunStop ==
    /\ srv.pc = "run"
    /\ srv.signal
    /\ srv' = [srv EXCEPT !.pc = "returned"]
    /\ UNCHANGED <<token, shutRx, sent, decVars, cbVars, written, sa>>
    /\ UNCHANGED <<mgrVars, sessVars, ptyVars, mfVars, connVars, histVars>>

\* the place of a task once the runtime is gone
Dropped(pc, ended) == IF pc \in ended THEN pc ELSE "dropped"

\* main returns after run(): the runtime is shut down and the process ends.
\* Every task that has not returned is dropped where it stands.
MainExit ==
    /\ srv.pc = "returned"
    /\ srv' = [srv EXCEPT !.pc = "exited"]
    /\ connPc' = [c \in Conns |->
                     Dropped(connPc[c], {"closed", "end_auth", "end_client", "end_shutdown"})]
    /\ fwdPc' = [s \in Ids |-> Dropped(fwdPc[s], {"none", "done"})]
    /\ mfPc' = [s \in Ids |-> Dropped(mfPc[s], {"none", "done"})]
    /\ readerPc' = [s \in Ids |-> Dropped(readerPc[s], {"none", "done"})]
    /\ UNCHANGED <<connArg, evPos, announced, outputSeen>>
    /\ UNCHANGED <<sState, process, dims, shutdownPending>>
    /\ UNCHANGED <<exited, exitInfo, ptyOut, ptyShutdown, nRead, childEof>>
    /\ UNCHANGED <<outRx, exitRx>>
    /\ UNCHANGED <<token, shutRx, sent, decVars, cbVars, written, sa>>
    /\ UNCHANGED <<mgrVars, histVars>>


\* the server after WebSocketServer::new, with or without a token, no
\* connection accepted yet
InitServer == \E tok \in BOOLEAN : ConstructedWith([c \in Conns |-> "closed"], tok)

\* The handshake and the dispatch of the handlers: clients connect, pass or
\* fail the gate, spawn agents, leave; the clients of ApiConns also send the
\* requests a handler answers with an error, and ping.
GateNext ==
    \/ \E c \in Conns : Accept(c)
    \/ \E c \in Conns, m \in AuthInputs : AuthText(c, m)
    \/ \E c \in Conns : AuthTimeout(c)
    \/ \E c \in Conns : AuthGone(c)
    \/ \E c \in ApiConns, f \in BadFrames : TextRejected(c, f)
    \/ \E c \in ApiConns, seq \in PingSeqs : Ping(c, seq)
    \/ \E c \in ApiConns : InvalidPath(c)
    \/ \E c \in ApiConns, type \in LookupTypes, id \in Ids : RequestAbsent(c, type, id)
    \/ \E c \in Conns : ClientGone(c)
    \/ \E c \in Conns : ConnEvent(c)
    \/ SpawnAgent

GateSpec == InitServer /\ [][GateNext]_vars

\* The server from its start to the end of the process: clients connect, pass
\* or fail the gate, spawn agents, leave; the agents exit on their own;
\* the shutdown signal arrives at any time, run() returns and main after it.
\* The agents write nothing: their output is left to ClientSpec.
ShutdownNext ==
    \/ \E c \in Conns : Accept(c)
    \/ \E c \in Conns, m \in AuthInputs : AuthText(c, m)
    \/ \E c \in Conns : AuthTimeout(c)
    \/ \E c \in Conns : AuthGone(c)
    \/ \E c \in Conns : ClientGone(c)
    \/ \E c \in Conns : ConnShutdown(c)
    \/ ShutdownSignal
    \/ RunStop
    \/ MainExit
    \/ SpawnAgent
    \/ \E s \in Ids, reason \in {"Normal", "Unknown"}, rt \in BOOLEAN : ReaderEnd(s, reason, rt)
    \/ \E s \in Ids : ReaderExitInfo(s)
    \/ \E s \in Ids : FwdWake(s)
    \/ \E s \in Ids : FwdCheck(s)
    \/ \E s \in Ids : MfExit(s)
    \/ \E s \in Ids : MfRemove(s)

ShutdownSpec == InitServer /\ [][ShutdownNext]_vars

\* The connections' side with clients that leave: ClientSpec, and any client
\* closing its connection at any time.
DisconnectNext ==
    \/ ClientNext
    \/ \E c \in Conns : ClientGone(c)

DisconnectSpec == InitListening /\ [][DisconnectNext]_vars


\* ================================================================== claims
\* AgentManager::list_agents / agent_exists: the ids of the registry
ListAgents == registry

\* the events of one type carrying one id, in bus order
EventsOf(t, id) == SelectSeq(bus, LAMBDA e : e.t = t /\ e.id = id)
ExitedCount(id) == Len(EventsOf("Exited", id))

\* spawn_agent returned Ok(id)
SpawnedOk(id) == Pos("Spawned", id) # {}

\* a connection handler has a request on this id in hand
InHand(id) == \E c \in Conns : connArg[c] = id

\* No task of the session can publish, remove or change anything any more: the
\* reader thread has ended, every channel is drained, no request is in hand,
\* and the forwarder has ended or polls a process that is not marked exited.
Idle(id) ==
    /\ readerPc[id] = "done"
    /\ ptyOut[id] = <<>> /\ outRx[id] = <<>> /\ exitRx[id] = <<>>
    /\ mfPc[id] \in {"select", "done"}
    /\ ~InHand(id)
    /\ \/ fwdPc[id] = "done"
       \/ fwdPc[id] = "wait" /\ ~exited[id] /\ ~shutdownPending[id]

\* the session has ended: kill_agent returned Ok for it, or its child exited
Ended(id) == kills[id] = "ok" \/ childEof[id]

\* C1: every session spawned through spawn_agent gets exactly one Exited event
\* on the bus: never two, and not zero once the session has ended (by kill or
\* child exit) and its tasks have nothing left to do.
C1_ExactlyOneExited ==
    \A id \in Ids :
        /\ ExitedCount(id) <= 1
        /\ (SpawnedOk(id) /\ Ended(id) /\ Idle(id)) => ExitedCount(id) = 1

\* C2: whenever Exited{id} is on the bus, list_agents no longer returns id.
C2_ExitedNotListed ==
    \A id \in Ids : ExitedCount(id) > 0 => id \notin ListAgents

\* C3: after kill_agent(id) returned Ok, once the session's tasks have nothing
\* left to do, the session is Stopped, Exited{id} is published, the PTY handle
\* is released and id is out of the registry.
C3_KillTearsDown ==
    \A id \in Ids :
        (kills[id] = "ok" /\ Idle(id)) =>
            /\ sState[id] = "Stopped"
            /\ ExitedCount(id) > 0
            /\ ~process[id]
            /\ id \notin registry

\* C4: when the child of a session exits on its own (zero-byte read, no kill
\* issued), once the session's tasks have nothing left to do, an exit with
\* reason Normal is published, the session is Stopped and out of the registry.
C4_ChildExitTearsDown ==
    \A id \in Ids :
        (SpawnedOk(id) /\ childEof[id] /\ kills[id] = "none" /\ Idle(id)) =>
            /\ \E i \in Pos("Exited", id) : bus[i].reason = "Normal"
            /\ sState[id] = "Stopped"
            /\ id \notin registry

\* C5: from the publication of Spawned{id} until the publication of
\* Exited{id}, list_agents returns id.
C5_SpawnedIsListed ==
    \A id \in Ids : (SpawnedOk(id) /\ ExitedCount(id) = 0) => id \in ListAgents

\* an agent is announced, has been killed and has published output, and is
\* still listed because no Exited was published
C5_Witness ==
    \E id \in Ids :
        /\ SpawnedOk(id) /\ ExitedCount(id) = 0 /\ id \in ListAgents
        /\ kills[id] = "ok" /\ Pos("Output", id) # {}

\* spawn_agent returned Err for this id: at the path check (state Stopped, never
\* started) or at PtyProcess::spawn (state Starting, no reader thread)
SpawnFailed(id) ==
    /\ sState[id] \in {"Stopped", "Starting"}
    /\ readerPc[id] = "none"
    /\ ~InHand(id)

\* C6: a failed spawn_agent leaves the registry as it was, starts no forwarding
\* task and publishes nothing: the step on which it fails changes neither the
\* registry nor the bus, and its id never shows in the registry, on the bus or
\* with a forwarding task.
C6_FailedSpawnNoTrace ==
    /\ [][\A id \in Ids :
             (SpawnFailed(id)' /\ ~SpawnFailed(id)) =>
                 /\ registry' = registry
                 /\ bus' = bus
                 /\ mfPc' = mfPc /\ fwdPc' = fwdPc]_vars
    /\ [](\A id \in Ids :
             SpawnFailed(id) =>
                 /\ id \notin registry
                 /\ mfPc[id] = "none" /\ fwdPc[id] = "none"
                 /\ \A i \in 1..Len(bus) : bus[i].id # id)

\* a spawn failed at PtyProcess::spawn while another agent is registered
C6_Witness ==
    \E id \in Ids :
        /\ SpawnFailed(id) /\ sState[id] = "Starting"
        /\ registry # {} /\ bus # <<>>

\* C7: every agent_output a connection was sent names an agent that the same
\* connection was sent in an agent_spawned before.
C7_OutputAfterSpawned ==
    \A c \in Conns : outputSeen[c] \subseteq announced[c]

\* C8: the Output events of one session are on the bus in the order in which
\* the reader thread read their chunks, none twice, none that was not read.
C8_OutputOrder ==
    \A id \in Ids :
        LET out == EventsOf("Output", id) IN
        /\ \A i \in 1..Len(out) : out[i].k \in 1..nRead[id]
        /\ \A i, j \in 1..Len(out) : i < j => out[i].k < out[j].k

\* two chunks of one session are on the bus
C8_Witness ==
    \E id \in Ids : Len(EventsOf("Output", id)) >= 2

\* C9: no event carrying id follows Exited{id} on the bus.
C9_ExitedIsLast ==
    \A id \in Ids : \A i \in Pos("Exited", id) :
        \A j \in (i + 1)..Len(bus) : bus[j].id # id

\* the place of a session on the path Starting -> Running -> Stopping ->
\* Stopped; the Stopped of a session that has not been started counts 0
Rank(id) ==
    CASE sState[id] = "Starting" -> 1
      [] sState[id] = "Running" -> 2
      [] sState[id] = "Stopping" -> 3
      [] sState[id] = "Stopped" /\ readerPc[id] # "none" -> 4
      [] OTHER -> 0

\* C10: a session's state never moves backwards on the path
\* Starting -> Running -> Stopping -> Stopped, and never leaves the final Stopped.
C10_StateMonotonic ==
    [][\A id \in Ids : Rank(id)' >= Rank(id)]_vars


\* C13: when spawn() has set Starting and PtyProcess::spawn then fails, the
\* session is Stopped again, with no process stored, once the call has returned.
C13_PtyFailureBackToStopped ==
    \A id \in Ids :
        (sState[id] # "none" /\ readerPc[id] = "none" /\ ~InHand(id)) =>
            sState[id] = "Stopped" /\ ~process[id]

\* C14: the process field of a session is Some exactly when its state is
\* Running or Stopping.
C14_ProcessIffRunningOrStopping ==
    \A id \in Ids :
        sState[id] # "none" =>
            (process[id] <=> sState[id] \in {"Running", "Stopping"})

PtyKillStep(c) ==
    connPc[c] = "kill_pty" /\ connPc'[c] # "kill_pty" /\ process[connArg[c]]

\* C20: PtyProcess::kill always returns Ok and leaves exited = true with reason
\* Killed, and on a process a kill has already marked so it changes nothing.
C20_KillIdempotent ==
    [][\A c \in Conns :
          PtyKillStep(c) =>
              LET id == connArg[c] IN
              /\ kills'[id] = "ok"
              /\ exited'[id] /\ exitInfo'[id] = "Killed"
              /\ (exited[id] /\ exitInfo[id] = "Killed" /\ kills[id] = "ok")
                     => UNCHANGED ptyVars]_vars

\* two kill_agent calls have returned Ok on a session whose process is still
\* stored: the second PtyProcess::kill acted on an already killed process
C20_Witness ==
    \E id \in Ids :
        /\ nKills = 2 /\ kills[id] = "ok" /\ process[id]
        /\ exited[id] /\ exitInfo[id] = "Killed"
        /\ \A c \in Conns : connPc[c] = "idle"


\* C11: spawn() on a session that is Running or Starting returns
\* AlreadyRunning and changes nothing of the session: not its state, its
\* process, its dimensions, its channels or its forwarder task.
C11_SpawnOnRunningRejected ==
    [][\A c \in Conns, id \in Ids :
          ((\E pathOk \in BOOLEAN : SessionSpawn(c, id, pathOk))
              /\ sState[id] \in {"Running", "Starting"}) =>
              /\ connPc'[c] = "err_AlreadyRunning"
              /\ UNCHANGED <<sessVars, ptyVars, mfVars>>]_vars

\* spawn() has been rejected on a session that runs, its forwarder polling
C11_Witness ==
    \E c \in Conns :
        /\ connPc[c] = "err_AlreadyRunning"
        /\ sState[connArg[c]] = "Running" /\ FwdAlive(connArg[c])

\* C12: spawn() on a session that is Stopping returns AlreadyRunning and the
\* state stays Stopping.
C12_SpawnOnStoppingRejected ==
    [][\A c \in Conns, id \in Ids :
          (SessionSpawn(c, id, TRUE) /\ sState[id] = "Stopping") =>
              /\ connPc'[c] = "err_AlreadyRunning"
              /\ sState'[id] = "Stopping"]_vars

\* the step of c is a write_input or a resize call on id
WriteOrResizeCall(c, id) == SessionWriteInput(c, id) \/ SessionResize(c, id)

\* C15: write_input and resize on a session with no process return NotRunning,
\* write nothing and leave the state and cols / rows as they are.
C15_NotRunningNoEffect ==
    [][\A c \in Conns, id \in Ids :
          (WriteOrResizeCall(c, id) /\ ~process[id]) =>
              /\ connPc'[c] = "err_NotRunning"
              /\ UNCHANGED <<written, sState, dims, process>>]_vars

\* a call was answered NotRunning on a session whose process the forwarder
\* released after its exit
C15_Witness ==
    \E c \in Conns :
        /\ connPc[c] = "err_NotRunning"
        /\ sState[connArg[c]] = "Stopped" /\ fwdPc[connArg[c]] = "done"

\* C19: once exited is set, a write or resize call returns ProcessExited, and
\* no step writes input to the child or changes the stored size: no input
\* reaches the child after a kill has returned.
C19_NoInputOnceExited ==
    [][/\ \A c \in Conns, id \in Ids :
              (WriteOrResizeCall(c, id) /\ process[id] /\ exited[id]) =>
                  connPc'[c] = "err_ProcessExited"
       /\ \A id \in Ids :
              exited[id] => (written'[id] = written[id] /\ dims'[id] = dims[id])]_vars


\* the step of c is a call of send_input, kill_agent, resize_agent,
\* get_agent_status or agent_state on id
LookupCall(c, id) ==
    \/ SendInput(c, id)
    \/ KillAgentCall(c, id)
    \/ ResizeAgentCall(c, id)
    \/ GetAgentStatus(c, id)
    \/ AgentStateOf(c, id)

\* C16: send_input, kill_agent, resize_agent, get_agent_status and agent_state
\* on an id the registry does not hold return AgentNotFound and change neither
\* the registry, nor a session, nor the bus.
C16_AbsentIdNotFound ==
    [][\A c \in Conns, id \in Ids :
          (LookupCall(c, id) /\ id \notin registry) =>
              /\ connPc'[c] = "err_AgentNotFound"
              /\ UNCHANGED <<registry, bus, sessVars, ptyVars, mfVars, histVars, apiVars>>]_vars

\* a call was answered AgentNotFound for an id that was registered and has
\* been removed after its exit
C16_Witness ==
    \E c \in Conns :
        /\ connPc[c] = "err_AgentNotFound"
        /\ connArg[c] \notin registry
        /\ ExitedCount(connArg[c]) > 0

BoundsHold(f) ==
    /\ f.type = "spawn_agent" =>
           /\ f.pathLen \in 1..4096
           /\ f.preset.some => f.preset.v \in 1..256
           /\ f.cols.some => f.cols.v \in 1..500
           /\ f.rows.some => f.rows.v \in 1..200
    /\ f.type = "agent_input" => f.inputLen <= 1048576
    /\ f.type = "kill_agent" => (f.signal.some => f.signal.v \in 1..31)
    /\ f.type = "resize_terminal" => f.cols.v \in 1..500 /\ f.rows.v \in 1..200

\* C28: ClientMessage::validate accepts a message exactly when all its bounds
\* hold (cols in [1,500], rows in [1,200], input at most 1 MiB, signal in
\* [1,31], path length in 1..4096, preset length in 1..256), and rejects every
\* other message with ValidationError.
C28_ValidateBounds ==
    outcome.by = "validate" =>
        /\ outcome.res = "Ok" <=> BoundsHold(frame)
        /\ ~BoundsHold(frame) => outcome.res = "ValidationError"

\* a resize_terminal with both sizes on their upper bound was accepted
C28_Witness ==
    /\ outcome.by = "validate" /\ outcome.res = "Ok"
    /\ frame.type = "resize_terminal"
    /\ frame.cols.v = 500 /\ frame.rows.v = 200

\* C29: decoding an envelope whose version is below MIN_PROTOCOL_VERSION fails
\* with UnsupportedVersion, whether or not the message's own fields are valid;
\* with a version of at least MIN_PROTOCOL_VERSION (PROTOCOL_VERSION, the
\* default, or a later one) and a valid message it succeeds.
C29_VersionGate ==
    (outcome.by = "from_json" /\ Deserializes(frame)) =>
        /\ VersionOf(frame) < MIN_PROTOCOL_VERSION => outcome.res = "UnsupportedVersion"
        /\ (VersionOf(frame) >= MIN_PROTOCOL_VERSION /\ BoundsHold(frame)) =>
               outcome.res = "Ok"

\* an envelope of version 0 whose message breaks a bound was refused for its
\* version
C29_Witness ==
    /\ outcome.by = "from_json" /\ outcome.res = "UnsupportedVersion"
    /\ Deserializes(frame) /\ ~BoundsHold(frame)

\* the last reply sent to the client of c, after the step
LastSent(c) == sent'[c][Len(sent'[c])]

\* the handler of c has dispatched a request, forwarded a bus event or
\* answered a request
Served(c) ==
    \/ connArg[c] # 0 \/ announced[c] # {} \/ outputSeen[c] # {}
    \/ connPc[c] \notin {"closed", "auth", "idle", "end_auth", "end_client", "end_shutdown", "dropped"}
    \/ \E i \in 1..Len(sent[c]) : sent[c][i] \notin {Welcome, AuthSuccess, ErrorWithCode("auth_failed")}

\* C21: with a token configured, a connection whose first text message is not
\* authenticate with the matching token (another token, another message, no
\* message, or none before the deadline) is sent error auth_failed and its
\* handler returns for good; no handler dispatches a request, answers one or
\* forwards a bus event unless it has passed the gate, and a handler that
\* failed the gate never has.
C21_AuthGate ==
    /\ [][\A c \in Conns :
             /\ ((\E m \in AuthInputs \ {"token_ok"} : AuthText(c, m)) \/ AuthTimeout(c)) =>
                    /\ sent'[c] = Append(sent[c], ErrorWithCode("auth_failed"))
                    /\ connPc'[c] = "end_auth"
             /\ connPc[c] = "end_auth" =>
                    /\ connPc'[c] = "end_auth"
                    /\ evPos'[c] = evPos[c] /\ sent'[c] = sent[c]]_vars
    /\ [](\A c \in Conns :
             /\ connPc[c] \in {"auth", "end_auth"} => ~Served(c)
             /\ (token /\ Served(c)) => (Len(sent[c]) >= 2 /\ sent[c][2] = AuthSuccess))

\* a connection has failed the gate while events it never was sent are on the
\* bus and another connection is served
C21_Witness ==
    \E c, c2 \in Conns :
        /\ connPc[c] = "end_auth"
        /\ sent[c] = <<Welcome, ErrorWithCode("auth_failed")>>
        /\ evPos[c] <= Len(bus)
        /\ Served(c2)

\* the step of c is a request that fails before the manager changes anything:
\* a text that does not decode, a spawn_agent with a bad path, a request that
\* names an unknown agent
FailedRequest(c) ==
    \/ \E f \in BadFrames : TextRejected(c, f)
    \/ InvalidPath(c)
    \/ \E type \in LookupTypes, id \in Ids : RequestAbsent(c, type, id)

\* the step of c is a spawn_agent call that returns Err
FailedSpawn(c) == SpawnAgentNew(c, FALSE) \/ SessionSpawnPty(c, FALSE)

C23_DecodeErrorCodes ==
    [][\A c \in Conns, f \in BadFrames :
          TextRejected(c, f) => LastSent(c) = ErrorWithCode(ErrorCodeOf(FromJson(f)))]_vars

\* C24: agent_input, kill_agent, resize_terminal and get_agent_status naming
\* an id the registry does not hold are answered with error agent_not_found
\* carrying that id.
C24_AbsentIdReply ==
    [][\A c \in Conns, type \in LookupTypes, id \in Ids :
          RequestAbsent(c, type, id) => LastSent(c) = AgentError(id, "agent_not_found")]_vars

\* the ways a handler ends that send a Close frame or follow the client's own
\* leaving
EndedPcs == {"end_auth", "end_client", "end_shutdown"}

\* C25: after the shutdown signal the accept loop stops, and every handler
\* that was open ends having sent a Close frame (or because its client left),
\* whatever it was doing: by the time the process ends no handler was cut off
\* where it stood.
C25_ShutdownClosesHandlers ==
    srv.pc = "exited" => \A c \in Conns : connPc[c] \in {"closed"} \cup EndedPcs

\* C26: once the shutdown signal has made run() return, no session remains in
\* the registry and no session holds a PTY with a child behind it.
C26_ShutdownTearsDownSessions ==
    srv.pc # "run" => (registry = {} /\ \A s \in Ids : ~process[s])

\* C27: a connection that ends stops being sent events and nothing else: the
\* step changes neither the registry, the bus, a session nor another
\* connection, and from then on the sessions it spawned stay registered with
\* their PTY until their child exits, their events going to the bus as before.
C27_SessionsOutliveConnection ==
    /\ [][\A c \in Conns :
             /\ ClientGone(c) =>
                    /\ UNCHANGED <<mgrVars, sessVars, ptyVars, mfVars>>
                    /\ \A c2 \in Conns \ {c} :
                           connPc'[c2] = connPc[c2] /\ evPos'[c2] = evPos[c2]
             /\ connPc[c] = "end_client" =>
                    /\ connPc'[c] = "end_client"
                    /\ evPos'[c] = evPos[c] /\ outputSeen'[c] = outputSeen[c]]_vars
    /\ [](\A c \in Conns : \A s \in announced[c] :
             (connPc[c] = "end_client" /\ ~exited[s]) =>
                 (s \in registry /\ process[s] /\ sState[s] = "Running"))

\* the connection that spawned a session is gone, another one is served, and
\* the session's next output is about to be published
C27_Witness ==
    \E c \in Conns, c2 \in Conns, s \in Ids :
        /\ connPc[c] = "end_client" /\ s \in announced[c]
        /\ connPc[c2] = "idle" /\ s \in outputSeen[c2]
        /\ ENABLED MfOutput(s)

\* the step of c is a resize_agent call on id that returns Err
ResizeFailure(c, id) ==
    \/ ResizeAgentNotFound(c, id)
    \/ \E err \in ErrPcs : ResizeAgentFails(c, id, err)

\* Resized events on the bus
ResizedOnBus == {i \in 1..Len(bus) : bus[i].t = "Resized"}

\* C30: a resize_agent call that succeeds stores the requested size and
\* publishes one Resized carrying the id and that size, which is the size
\* get_agent_status reads from then on; a call that fails (AgentNotFound,
\* NotRunning, ProcessExited, failure of the PTY resize) changes no session's
\* size and publishes nothing.
C30_ResizeStoresAndPublishes ==
    /\ [][\A c \in Conns, id \in Ids :
             /\ (ResizeAgent(c, id) /\ connPc'[c] = "resize_publish") =>
                    (dims'[id] = ResizeDims /\ bus' = bus)
             /\ (ResizePublish(c) /\ connArg[c] = id) =>
                    /\ bus' = Append(bus, Resized(id, ResizeDims))
                    /\ dims'[id] = ResizeDims
             /\ ResizeFailure(c, id) => (dims' = dims /\ bus' = bus)
             /\ GetAgentStatus(c, id) => dims' = dims]_vars
    /\ [](/\ Cardinality(ResizedOnBus)
              + Cardinality({c \in Conns : connPc[c] = "resize_publish"}) = nResized
          /\ \A i \in ResizedOnBus : bus[i].dims = ResizeDims /\ dims[bus[i].id] = ResizeDims)

\* a resize has succeeded and its one event is on the bus, and a later resize
\* of the same session has failed at the PTY and left the stored size
C30_Witness ==
    \E c \in Conns, id \in Ids :
        /\ connPc[c] = "err_ResizeFailed"
        /\ connArg[c] = id
        /\ Cardinality({i \in ResizedOnBus : bus[i].id = id}) = 1
        /\ dims[id] = ResizeDims

\* C33: when the reader thread has stopped at the child's end without writing
\* exited / exit_info (no runtime handle) and nobody has killed the session,
\* the forwarder does not go on polling: once every queue is drained and no
\* request is in hand, the forwarder task has ended and the session is
\* Stopped.
C33_ExitSeenByChannelClosure ==
    \A id \in Ids :
        (/\ readerPc[id] = "done" /\ childEof[id]
         /\ ~exited[id] /\ exitInfo[id] = "None"
         /\ kills[id] = "none" /\ process[id]
         /\ Idle(id))
        => (fwdPc[id] = "done" /\ sState[id] = "Stopped")

\* C36: the bus never carries two Exited events for one id, and an id leaves
\* the registry only by the one removal of its forwarding task, which has
\* ended afterwards for good, however kill_agent calls, the reader's end and
\* the forwarders interleave.
C36_AtMostOneExited ==
    /\ [](\A id \in Ids : Cardinality(Pos("Exited", id)) <= 1)
    /\ [][\A id \in Ids :
             /\ (id \in registry /\ id \notin registry') =>
                    (mfPc[id] = "remove" /\ mfPc'[id] = "done")
             /\ mfPc[id] = "done" => mfPc'[id] = "done"
             /\ Len(EventsOf("Exited", id)') > Len(EventsOf("Exited", id)) =>
                    (mfPc[id] = "select" /\ mfPc'[id] = "remove")]_vars

\* an agent was killed twice, its one Exited is on the bus and it has been
\* removed
C36_Witness ==
    \E id \in Ids :
        /\ kills[id] = "ok" /\ nKills >= 2
        /\ Cardinality(Pos("Exited", id)) = 1
        /\ mfPc[id] = "done" /\ id \notin registry

\* C37: on the bus every Output{id} and every Exited{id} comes after
\* Spawned{id}.
C37_SpawnedIsFirst ==
    \A id \in Ids : \A i \in Pos("Output", id) \cup Pos("Exited", id) :
        \E j \in Pos("Spawned", id) : j < i

C39_KillOkMeansKilled ==
    [][\A c \in Conns :
          (KillLookup(c) /\ connArg[c] \notin registry) => connPc'[c] \in ErrPcs]_vars

\* what belongs to one session: its state, its PTY handle, its size, its
\* registry entry
SessionOf(b) == <<sState[b], process[b], dims[b], b \in registry>>

\* the step is a failed spawn, a kill, an exit detection or a registry removal
\* of session a
StepOf(a) ==
    \/ \E c \in Conns : connArg[c] = a /\ (SessionSpawnPty(c, FALSE) \/ KillLookup(c) \/ KillPty(c))
    \/ \E c \in Conns : KillCheck(c, a)
    \/ FwdShutdown(a) \/ FwdCheck(a) \/ MfExit(a) \/ MfRemove(a)
    \/ \E reason \in {"Normal", "Unknown"}, rt \in BOOLEAN : ReaderEnd(a, reason, rt)

OpStep(c) ==
    \/ \E ptyOk \in BOOLEAN : SessionSpawnPty(c, ptyOk)
    \/ SetupOutputForwarding(c)
    \/ SpawnInsert(c) \/ SpawnPublish(c)
    \/ KillLookup(c) \/ KillPty(c)
    \/ ResizePublish(c)
    \/ \E ok \in BOOLEAN : InputWrite(c, ok)
    \/ ConnReply(c)

\* the operation of c is suspended: it is under way and cannot take its step
Suspended(c) == connPc[c] \notin {"idle", "closed"} /\ ~ENABLED OpStep(c)

Pongs(c) == SelectSeq(sent[c], LAMBDA m : m.t = "pong")

\* C31: on every accepted connection the first message sent is welcome and no
\* later one is; a ping{seq} is answered with one message, pong with the same
\* seq, and no pong is sent but in answer to a ping.
C31_WelcomeFirstPongEchoes ==
    /\ [](\A c \in Conns :
             /\ connPc[c] # "closed" => sent[c] # <<>>
             /\ \A i \in 1..Len(sent[c]) : (sent[c][i] = Welcome) <=> (i = 1))
    /\ [][\A c \in Conns :
             /\ \A seq \in PingSeqs : Ping(c, seq) => sent'[c] = Append(sent[c], Pong(seq))
             /\ Pongs(c)' # Pongs(c) => \E seq \in PingSeqs : Ping(c, seq)]_vars

\* a client that passed the gate was sent welcome, auth_success and the pong
\* of its ping 7
C31_Witness ==
    \E c \in Conns : sent[c] = <<Welcome, AuthSuccess, Pong(7)>>

\* ------------------------------------------------ PtyProcessWithCallbacks
\* One PtyProcessWithCallbacks, its forwarding task, the reader thread of its
\* PtyProcess, and one caller of its methods.  cb.holder is the owner of the
\* process mutex (Arc<Mutex<PtyProcess>>); cb.queue counts the chunks in the
\* PtyProcess output channel and cb.closed says its sender is dropped.

\* calls made on the PtyProcessWithCallbacks over the run
MaxCalls == 2

CbOps == {"write", "resize", "has_exited", "kill"}

cbFrame == <<mgrVars, sessVars, ptyVars, mfVars, connVars, histVars,
             written, sa, wsVars, decVars, lagged>>

\* spawn: the PtyProcess is started, running is true, the task is spawned
CbSpawn ==
    /\ cb.task = "none"
    /\ cb' = [cb EXCEPT !.task = "lock", !.running = TRUE]
    /\ UNCHANGED cbFrame

\* the reader thread reads a chunk of the child's output and sends it
CbChildOutput ==
    /\ cb.task # "none"
    /\ ~cb.closed
    /\ cb.produced < MaxChunks
    /\ cb' = [cb EXCEPT !.queue = @ + 1, !.produced = @ + 1]
    /\ UNCHANGED cbFrame

\* the reader thread leaves its loop (EOF, read error or shutdown) and drops
\* the sender; rt: Handle::try_current() gave it a runtime to set exited with
CbReaderEnd ==
    /\ cb.task # "none"
    /\ ~cb.closed
    /\ \E rt \in BOOLEAN :
        cb' = [cb EXCEPT !.closed = TRUE, !.exited = @ \/ rt]
    /\ UNCHANGED cbFrame

\* the output branch of select!: process_clone.lock().await is granted
CbTaskLock ==
    /\ cb.task = "lock"
    /\ cb.holder = "none"
    /\ cb' = [cb EXCEPT !.task = "recv", !.holder = "task"]
    /\ UNCHANGED cbFrame

\* proc.recv().await yields Some: the guard is dropped, output_callback runs
CbTaskOutput ==
    /\ cb.task = "recv"
    /\ cb.queue > 0
    /\ cb' = [cb EXCEPT !.queue = @ - 1, !.outCalls = @ + 1,
                         !.holder = "none", !.task = "lock"]
    /\ UNCHANGED cbFrame

\* proc.recv().await yields None: the guard is dropped, the None arm starts
CbTaskClosed ==
    /\ cb.task = "recv"
    /\ cb.queue = 0
    /\ cb.closed
    /\ cb' = [cb EXCEPT !.holder = "none", !.task = "exit_lock"]
    /\ UNCHANGED cbFrame

\* the None arm: lock, exit_callback, break, running = false
CbTaskExit ==
    /\ cb.task = "exit_lock"
    /\ cb.holder = "none"
    /\ cb' = [cb EXCEPT !.exitCalls = @ + 1, !.running = FALSE, !.task = "done"]
    /\ UNCHANGED cbFrame

\* the shutdown branch of select!: the output future is dropped (and with it
\* the guard it may hold), break, running = false
CbTaskShutdown ==
    /\ cb.task \in {"lock", "recv"}
    /\ cb.shutdown
    /\ cb' = [cb EXCEPT !.shutdown = FALSE, !.running = FALSE, !.task = "done",
                         !.holder = IF @ = "task" THEN "none" ELSE @]
    /\ UNCHANGED cbFrame

\* a method is called: kill sends on shutdown_tx first; every method then
\* awaits the process mutex
CbCall(op) ==
    /\ cb.task # "none"
    /\ cb.callPc = "none"
    /\ cb.nCalls < MaxCalls
    /\ cb' = [cb EXCEPT !.op = op, !.callPc = "lock_wait", !.nCalls = @ + 1,
                         !.result = "none",
                         !.shutdown = @ \/ (op = "kill" /\ cb.task # "done")]
    /\ UNCHANGED cbFrame

\* the caller is granted the process mutex
CbCallLock ==
    /\ cb.callPc = "lock_wait"
    /\ cb.holder = "none"
    /\ cb' = [cb EXCEPT !.callPc = "locked", !.holder = "caller"]
    /\ UNCHANGED cbFrame

\* the method of PtyProcess runs under the guard and the call returns
CbCallReturn ==
    /\ cb.callPc = "locked"
    /\ cb' = [cb EXCEPT
                !.callPc = "none",
                !.holder = "none",
                !.exited = @ \/ (cb.op = "kill"),
                !.result = CASE cb.op = "kill" -> "Ok"
                             [] cb.op = "has_exited" ->
                                    IF cb.exited THEN "true" ELSE "false"
                             [] OTHER ->
                                    IF cb.exited THEN "ProcessExited" ELSE "Ok"]
    /\ UNCHANGED cbFrame

\* the steps the program takes by itself, the child doing nothing
CbProgramStep ==
    \/ CbTaskLock
    \/ CbTaskOutput
    \/ CbTaskClosed
    \/ CbTaskExit
    \/ CbTaskShutdown
    \/ CbCallLock
    \/ CbCallReturn

CallbackNext ==
    \/ CbSpawn
    \/ CbChildOutput
    \/ CbReaderEnd
    \/ CbTaskLock
    \/ CbTaskOutput
    \/ CbTaskClosed
    \/ CbTaskExit
    \/ CbTaskShutdown
    \/ \E op \in CbOps : CbCall(op)
    \/ CbCallLock
    \/ CbCallReturn

CallbackSpec == InitListening /\ [][CallbackNext]_vars

\* C40: a write, resize or has_exited call that waits for the process mutex
\* is never left with nothing but the child to wait for: some step of the
\* program itself can always be taken; the exit callback runs at most once,
\* and once the forwarding task has ended is_running is false.
C40_CallsCompleteWhileChildSilent ==
    /\ (cb.callPc = "lock_wait" /\ cb.op \in {"write", "resize", "has_exited"})
           => ENABLED CbProgramStep
    /\ cb.exitCalls <= 1
    /\ cb.task = "done" => ~cb.running

\* --------------------------------------------------- a receiver that lags
\* The manager with a session output channel of capacity OutputRetained: the
\* manager's forwarding task gets Lagged when it is further behind than that.
LagNext ==
    \/ SpawnAgent
    \/ \E s \in Ids : ReaderChunk(s)
    \/ \E s \in Ids, reason \in {"Normal", "Unknown"}, rt \in BOOLEAN : ReaderEnd(s, reason, rt)
    \/ \E s \in Ids : ReaderExitInfo(s)
    \/ \E s \in Ids : FwdWake(s)
    \/ \E s \in Ids : FwdDrain(s)
    \/ \E s \in Ids : FwdCheck(s)
    \/ \E s \in Ids : MfOutputInCapacity(s)
    \/ \E s \in Ids : MfLagged(s)
    \/ \E s \in Ids : MfExit(s)
    \/ \E s \in Ids : MfRemove(s)

LagSpec == Init /\ [][LagNext]_vars

====
